---- MODULE Spec2Model ----
(***************************************************************************)
(* State-machine model of the selection popup (content script) and of the *)
(* streaming response controller (ContentPopup component).                *)
(*                                                                         *)
(* SpecVis  : the visibility controller of frontend/src/content.js.       *)
(* SpecRate : the submit handlers and their client rate-limit gate, with   *)
(*            time passing between submissions.                            *)
(* SpecChat : the response controller with one request in flight: popup   *)
(*            events, limit status, stream events, fallback.              *)
(* SpecOverlap : two requests whose streams overlap.                       *)
(* SpecTok  : one request whose stream carries texts (normalisation).      *)
(* SpecReplay : two submissions with their token streams.                  *)
(* SpecDeeper : a submission and its follow-ups from the deeper bar.       *)
(* SpecLimit : a 429, the limit status and the countdown.                  *)
(* SpecTimer : the countdown effect and its interval timer.                *)
(* SpecTts  : the audio buttons, useTTS and scripts/tts.                   *)
(* SpecLock, SpecLockCalls : the selection lock and its handlers.          *)
(* SpecCapture : the saved selection and its overlay.                      *)
(* SpecLockView : the selection-lock effect over a request and the closes.  *)
(* SpecClose : the ways the popup closes, with the saved selection.        *)
(* SpecPos  : positionBox on anchor rects, viewports and popup sizes.      *)
(* SpecDismiss : the visibility controller after the X button and Escape.  *)
(* SpecSched : the frame scheduler with passes that may throw (fair).      *)
(* SpecLive : one submission on a network that always answers (fair).      *)
(* SpecBlocked : the deeper bar under the server limit.                    *)
(***************************************************************************)
EXTENDS Integers, Sequences, FiniteSets, TLC

(***************************************************************************)
(* Bounds of the model and program constants.                              *)
(***************************************************************************)
MaxSel == 2
MaxTriggers == 3
MaxTimers == 1
InnerWidth == 40
InnerHeight == 40
PopupW == 6
PopupH == 4
MARGIN == 8
MaxSubmits == 6
MaxAdvances == 2
MaxStatusSecs == 0
MaxOpens == 2
MaxPendingStatus == 1
MaxReq == 1
MaxOverlap == 2
MaxLiveReq == 1
MaxBlockedReq == 2
MaxTok == 1
MaxTicks == 1
MaxLag == 2
MaxStreamTok == 3
MaxTokReq == 1
MaxReplayReq == 2
MaxReplayTok == 2
MaxLimitSecs == 3
MaxLimitTicks == 5
MaxTtsCalls == 3
MaxLocks == 3
MaxAdds == 3
MaxDeeperReq == 2
RATE_LIMIT == 5
RATE_WINDOW_MS == 60000

Min2(a, b) == IF a < b THEN a ELSE b
Max2(a, b) == IF a > b THEN a ELSE b

(***************************************************************************)
(* Visibility controller: state of the IIFE in content.js.                 *)
(***************************************************************************)
VARIABLES
  insidePopup,        \* pointer is over the popup
  lastVisible,        \* visibility at the last open/close signal
  rafId,              \* id of the scheduled frame callback, 0 when none
  isMouseDown,        \* a mouse button is held on the page
  pinned,             \* a response view is open
  forceClosed,        \* explicit dismissal, until the selection changes
  lastSelectionText,  \* selection text seen by the last pass (0 is '')
  boxDisplay,         \* box.style.display: "none" or "block"
  boxPos,             \* box.style.left / top, <<left, top>>
  selection,          \* the page's live selection: [text, collapsed, rects, bounding]
  overlay,            \* rects of the .hl blocks of the saved-selection overlay
  rafQueue,           \* frame callbacks the browser holds for the next frame
  timers,             \* pending setTimeout(.., 20) callbacks of mouseup
  triggers,           \* reconciliation triggers since the last frame
  lastSignal,         \* last lifecycle signal dispatched: "none", "open", "close"
  obs                 \* what the last step did: passes run, signals dispatched

visVars == <<insidePopup, lastVisible, rafId, isMouseDown, pinned, forceClosed,
             lastSelectionText, boxDisplay, boxPos, selection, overlay, rafQueue,
             timers, triggers, lastSignal, obs>>

(***************************************************************************)
(* Response controller: state of the ContentPopup component.               *)
(***************************************************************************)
VARIABLES
  st,        \* React state: loading, error, response, history, contexts,
             \* limitReached, limitShown
  refs,      \* refs: responseRef, appendedOnceRef, requestTimesRef,
             \* limitActionLockRef, hasShownLimitRef (ResponseSection)
  view,      \* the state as last rendered (what buttons and props show)
  reqs,      \* the generation requests started so far, in order
  clock,     \* Date.now(), ms
  net,       \* limit-status fetches in flight that belong to no request
  popupOpen, \* the popup is shown (between popup:open and popup:close)
  chatObs    \* what the last step did: submission accepted or rejected

chatVars == <<st, refs, view, reqs, clock, net, popupOpen, chatObs>>

(***************************************************************************)
(* Audio, selection lock, overlay and saved selection of the page.         *)
(***************************************************************************)
VARIABLES
  page       \* tts: module state of scripts/tts and speakingRef of useTTS;
             \* lock: lockApiRef, the capture listeners of window and the
             \* 'locked' class of the overlay, the last call and the add()
             \* calls since the last remove(); lastEvent: the last event
             \* dispatched on window and what the listeners did to it;
             \* sel: the live selection as a range [text, rects],
             \* selectionRangeRef, the overlay element (Null when
             \* absent) with its .hl blocks, originalSelection, last call

vars == <<visVars, chatVars, page>>

\* scripts/tts: currentAudio = null, endResolver = null (part_003 75-80);
\* useTTS: speakingRef = false (useTTS.js:22). calls are the play() calls so
\* far, playing the Audio elements that sound. lockApiRef = null
\* (ContentPopup.jsx:95), no listener on window.
Null == [null |-> TRUE]
PageIdle ==
  [ tts |-> [ speakingRef |-> FALSE, calls |-> <<>>, currentAudio |-> 0,
              endResolver |-> 0, playing |-> {}, errors |-> {},
              ui |-> [ speaking |-> FALSE, speakingSource |-> "null",
                       audioLoadingSelection |-> FALSE,
                       audioLoadingResponse |-> FALSE ] ],
    lock |-> [ lockApiRef |-> 0, created |-> 0, listeners |-> <<>>,
               locked |-> FALSE, lastCall |-> "none", adds |-> 0, addsBefore |-> 0,
               deps |-> <<<<>>, "", FALSE>> ],
    lastEvent |-> [type |-> "none"],
    timer |-> [limitTimerRef |-> 0, active |-> {}, made |-> 0, mounted |-> TRUE],
    sel |-> [ live |-> [rangeCount |-> 0], selectionRangeRef |-> Null, overlayEl |-> Null,
              body |-> <<>>, originalSelection |-> <<>>, act |-> "none" ] ]

\* Mutant: clear() removes nothing.
clearKeeps(body) == body

\* clear() on the overlay containers of document.body, in document order:
\* getElementById finds the first node with the overlay id, and that node is
\* removed from its parent.
clear(body) == IF body = <<>> THEN body ELSE Tail(body)

\* useState / useRef initial values (ContentPopup.jsx:50-98).
InitialSt ==
  [ loading |-> FALSE, error |-> "", response |-> <<>>, history |-> <<>>,
    contexts |-> <<>>, limitReached |-> 0, limitShown |-> FALSE ]
InitialRefs ==
  [ responseRef |-> <<>>, appendedOnceRef |-> FALSE, requestTimesRef |-> <<>>,
    limitActionLockRef |-> FALSE, hasShownLimitRef |-> FALSE ]
NoSubmit == [act |-> "none", wait |-> 0, inWindow |-> 0]

\* The component mounted and idle, the popup hidden.
ChatMounted ==
  /\ st = InitialSt
  /\ refs = InitialRefs
  /\ view = InitialSt
  /\ reqs = <<>>
  /\ clock = 0
  /\ net = [openStatus |-> 0, limitAction |-> 0, advances |-> 0, opens |-> 0, ticks |-> 0, dirty |-> 0]
  /\ popupOpen = FALSE
  /\ chatObs = NoSubmit

ChatIdle == ChatMounted /\ page = PageIdle

(***************************************************************************)
(* Rectangles in viewport coordinates.                                     *)
(***************************************************************************)
Rect(l, t, r, b) == [left |-> l, top |-> t, right |-> r, bottom |-> b]
width(r) == r.right - r.left
height(r) == r.bottom - r.top

\* A line on screen, a second line below it, a line scrolled above the
\* viewport, a line scrolled below it, and a caret (zero-sized) rect.
LineOn == Rect(2, 3, 9, 5)
LineOn2 == Rect(2, 5, 7, 7)
LineAbove == Rect(2, -6, 9, -4)
LineBelow == Rect(2, InnerHeight + 2, 9, InnerHeight + 4)
Caret == Rect(4, 4, 4, 4)

\* range.getBoundingClientRect() of a range without client rects: all zero.
EmptyBounds == Rect(0, 0, 0, 0)

\* The client-rect lists a non-collapsed selection can have.
RectLists == { <<LineOn, LineOn2>>, <<LineBelow>>, <<Caret>>, <<>> }

\* The selections of the page: a text (0 is empty after trim) and a range.
Selections ==
  { [text |-> t, collapsed |-> TRUE, rects |-> <<>>] : t \in 0..MaxSel }
  \cup { [text |-> t, collapsed |-> FALSE, rects |-> rs] :
           t \in 0..MaxSel, rs \in RectLists }

\* The overlays the component can have drawn: none, or highlight blocks.
Overlays == { <<>>, <<LineOn, LineOn2>>, <<LineAbove>> }

\* content.js:186-190 and 205-209: the rect with the greatest bottom, the
\* first one winning ties.
RECURSIVE bottomMostFrom(_, _)
bottomMostFrom(best, rs) ==
  IF rs = <<>> THEN best
  ELSE bottomMostFrom(IF Head(rs).bottom > best.bottom THEN Head(rs) ELSE best, Tail(rs))
bottomMost(rs) == bottomMostFrom(Head(rs), rs)

\* Mutant: overlay highlights are not taken for a selection.
hasSelectionLiveOnly(sel, ov) ==
  \/ sel.text # 0
  \/ ~sel.collapsed

\* hasSelection(): live text, a non-collapsed range, or overlay highlights.
hasSelection(sel, ov) ==
  \/ sel.text # 0
  \/ ~sel.collapsed
  \/ ov # <<>>

\* getSelectionRect(): <<rect>> or <<>> for null.
getSelectionRect(sel, ov) ==
  IF ~sel.collapsed
  THEN LET rect == IF sel.rects # <<>> THEN bottomMost(sel.rects) ELSE EmptyBounds
       IN IF width(rect) = 0 /\ height(rect) = 0 THEN <<>> ELSE <<rect>>
  ELSE IF ov # <<>>
       THEN LET bm == bottomMost(ov)
            IN IF width(bm) > 0 \/ height(bm) > 0 THEN <<bm>> ELSE <<>>
       ELSE <<>>

rectIntersectsViewport(rect) ==
  /\ rect.bottom > 0
  /\ rect.right > 0
  /\ rect.left < InnerWidth
  /\ rect.top < InnerHeight

clamp(value, min, max) == Max2(min, Min2(max, value))

\* positionBox(box, rect) for a viewport and a measured box: the left/top
\* written to the box.
positionBoxOf(rect, innerWidth, innerHeight, boxW, boxH) ==
  LET desiredTop == rect.bottom + MARGIN
      desiredLeft == rect.left
      maxLeft == innerWidth - boxW - MARGIN
      maxTop == innerHeight - boxH - MARGIN
  IN << clamp(desiredLeft, MARGIN, Max2(MARGIN, maxLeft)),
        clamp(desiredTop, MARGIN, Max2(MARGIN, maxTop)) >>

positionBox(rect) == positionBoxOf(rect, InnerWidth, InnerHeight, PopupW, PopupH)

\* content.js:272: the synthetic corner rect.
CornerRect ==
  Rect(MARGIN, InnerHeight - (MARGIN + 1), MARGIN + 1, InnerHeight - MARGIN)

\* Mutant: forceClosed is cleared as soon as a selection is visible.
forceClosedAfterVisible(fc, currentSelText, lastText, selVisible) ==
  IF selVisible \/ currentSelText # lastText THEN FALSE ELSE fc

\* content.js:282-288: forceClosed after the selection-change test.
forceClosedAfter(fc, currentSelText, lastText, selVisible) ==
  IF currentSelText # lastText THEN FALSE ELSE fc

\* Mutant: the pointer being over the popup no longer keeps it shown.
shouldShowNoInside(fc, pin, mouseDown, selVisible, inside) ==
  ~fc /\ (pin \/ (~mouseDown /\ selVisible))

\* content.js:291
shouldShowOf(fc, pin, mouseDown, selVisible, inside) ==
  ~fc /\ (pin \/ (~mouseDown /\ selVisible) \/ inside)

\* The controller's variables as one record, so that a pass is a function.
CtlState ==
  [ insidePopup |-> insidePopup, lastVisible |-> lastVisible,
    isMouseDown |-> isMouseDown, pinned |-> pinned, forceClosed |-> forceClosed,
    lastSelectionText |-> lastSelectionText, display |-> boxDisplay,
    pos |-> boxPos, emitted |-> <<>>, selVisible |-> FALSE ]

\* update(): one reconciliation pass over controller state s.
update(s, sel, ov) ==
  LET found == getSelectionRect(sel, ov)
      liveVisible == found # <<>> /\ rectIntersectsViewport(found[1])
      anySelectionOrPinned == hasSelection(sel, ov) \/ s.pinned
      corner == ~liveVisible /\ anySelectionOrPinned
      selVisible == liveVisible \/ corner
      rect == IF corner THEN CornerRect ELSE found[1]
      currentSelText == IF selVisible THEN sel.text ELSE 0
      fc == forceClosedAfter(s.forceClosed, currentSelText, s.lastSelectionText, selVisible)
      shouldShow == shouldShowOf(fc, s.pinned, s.isMouseDown, selVisible, s.insidePopup)
  IN [ s EXCEPT
         !.lastSelectionText = currentSelText,
         !.forceClosed = fc,
         !.pos = IF selVisible THEN positionBox(rect) ELSE @,
         !.emitted = IF shouldShow # s.lastVisible
                     THEN Append(@, IF shouldShow THEN "open" ELSE "close")
                     ELSE @,
         !.lastVisible = shouldShow,
         !.display = IF shouldShow THEN "block" ELSE "none",
         !.selVisible = selVisible ]

\* The frame callbacks of one animation frame, run one after the other.
RECURSIVE runPasses(_, _, _, _)
runPasses(n, s, sel, ov) ==
  IF n = 0 THEN s ELSE runPasses(n - 1, update(s, sel, ov), sel, ov)

\* Mutant: no test of rafId, every call requests a frame.
scheduleUpdateAlways(id, queue) == <<1, queue + 1>>

\* scheduleUpdate(): <<rafId, rafQueue>> after the call.
scheduleUpdate(id, queue) ==
  IF id # 0 THEN <<id, queue>> ELSE <<1, queue + 1>>

(***************************************************************************)
(* Actions of the visibility controller.                                   *)
(***************************************************************************)
\* A step that runs no reconciliation pass and dispatches no signal.
NoPass == [passes |-> 0, coalesced |-> 0, selVisible |-> FALSE, emitted |-> <<>>]

\* A raw trigger: the listener's call of scheduleUpdate(); pg is the page
\* record after the step (its lastEvent notes what the user did).
SchedNoting(pg) ==
  /\ triggers < MaxTriggers
  /\ triggers' = triggers + 1
  /\ rafId' = scheduleUpdate(rafId, rafQueue)[1]
  /\ rafQueue' = scheduleUpdate(rafId, rafQueue)[2]
  /\ obs' = NoPass
  /\ page' = pg
  /\ UNCHANGED chatVars

Sched == SchedNoting(page)

\* document 'selectionchange': the page's selection became sel.
SelectionChangeNoting(sel, pg) ==
  /\ sel # selection
  /\ selection' = sel
  /\ SchedNoting(pg)
  /\ UNCHANGED <<insidePopup, lastVisible, isMouseDown, pinned, forceClosed,
                 lastSelectionText, boxDisplay, boxPos, overlay, timers, lastSignal>>

SelectionChange(sel) == SelectionChangeNoting(sel, page)

\* document 'mousedown' (outside the popup, which stops propagation).
MouseDown ==
  /\ isMouseDown' = TRUE
  /\ Sched
  /\ UNCHANGED <<insidePopup, lastVisible, pinned, forceClosed, lastSelectionText,
                 boxDisplay, boxPos, selection, overlay, timers, lastSignal>>

\* document 'mouseup': also arms the 20 ms timer.
MouseUp ==
  /\ timers < MaxTimers
  /\ isMouseDown' = FALSE
  /\ timers' = timers + 1
  /\ Sched
  /\ UNCHANGED <<insidePopup, lastVisible, pinned, forceClosed, lastSelectionText,
                 boxDisplay, boxPos, selection, overlay, lastSignal>>

\* The setTimeout(.., 20) callback of mouseup.
MouseUpTimer ==
  /\ timers > 0
  /\ timers' = timers - 1
  /\ Sched
  /\ UNCHANGED <<insidePopup, lastVisible, isMouseDown, pinned, forceClosed,
                 lastSelectionText, boxDisplay, boxPos, selection, overlay, lastSignal>>

\* Listeners that only call scheduleUpdate().
OnlySched ==
  /\ Sched
  /\ UNCHANGED <<insidePopup, lastVisible, isMouseDown, pinned, forceClosed,
                 lastSelectionText, boxDisplay, boxPos, selection, overlay, timers,
                 lastSignal>>
KeyUp == OnlySched
Wheel == OnlySched
TouchMove == OnlySched
Resize == OnlySched
PopupResize == OnlySched

\* 'scroll' (document capture and window): the selection's client rects move.
Scroll(rs) ==
  /\ ~selection.collapsed
  /\ selection' = [selection EXCEPT !.rects = rs]
  /\ Sched
  /\ UNCHANGED <<insidePopup, lastVisible, isMouseDown, pinned, forceClosed,
                 lastSelectionText, boxDisplay, boxPos, overlay, timers, lastSignal>>

\* 'pointerenter' / 'pointerleave' on the popup element.
PointerEnter ==
  /\ boxDisplay = "block"
  /\ ~insidePopup
  /\ insidePopup' = TRUE
  /\ obs' = NoPass
  /\ UNCHANGED <<chatVars, page>>
  /\ UNCHANGED <<lastVisible, rafId, isMouseDown, pinned, forceClosed,
                 lastSelectionText, boxDisplay, boxPos, selection, overlay, rafQueue,
                 timers, triggers, lastSignal>>

PointerLeave ==
  /\ insidePopup
  /\ insidePopup' = FALSE
  /\ obs' = NoPass
  /\ UNCHANGED <<chatVars, page>>
  /\ UNCHANGED <<lastVisible, rafId, isMouseDown, pinned, forceClosed,
                 lastSelectionText, boxDisplay, boxPos, selection, overlay, rafQueue,
                 timers, triggers, lastSignal>>

\* window 'popup:pin' with detail.pinned = p.
PopupPin(p) ==
  /\ pinned' = p
  /\ Sched
  /\ UNCHANGED <<insidePopup, lastVisible, isMouseDown, forceClosed,
                 lastSelectionText, boxDisplay, boxPos, selection, overlay, timers,
                 lastSignal>>

\* window 'popup:forceClose', dispatched by a handler that left the page with
\* selection sel and overlay ov.
ForceCloseNoting(sel, ov, pg) ==
  /\ pinned' = FALSE
  /\ forceClosed' = TRUE
  /\ insidePopup' = FALSE
  /\ lastVisible' = FALSE
  /\ boxDisplay' = "none"
  /\ selection' = sel
  /\ overlay' = ov
  /\ SchedNoting(pg)
  /\ UNCHANGED <<isMouseDown, lastSelectionText, boxPos, timers, lastSignal>>

ForceClose == ForceCloseNoting(selection, overlay, page)

\* The component draws or clears the saved-selection overlay.
OverlayChange(ov) ==
  /\ ov # overlay
  /\ overlay' = ov
  /\ obs' = NoPass
  /\ UNCHANGED <<chatVars, page>>
  /\ UNCHANGED <<insidePopup, lastVisible, rafId, isMouseDown, pinned, forceClosed,
                 lastSelectionText, boxDisplay, boxPos, selection, rafQueue, timers,
                 triggers, lastSignal>>

\* The controller's variables after the passes that produced record s.
Assign(s) ==
  /\ insidePopup' = s.insidePopup
  /\ lastVisible' = s.lastVisible
  /\ isMouseDown' = s.isMouseDown
  /\ pinned' = s.pinned
  /\ forceClosed' = s.forceClosed
  /\ lastSelectionText' = s.lastSelectionText
  /\ boxDisplay' = s.display
  /\ boxPos' = s.pos
  /\ lastSignal' = IF s.emitted = <<>> THEN lastSignal ELSE s.emitted[Len(s.emitted)]

\* Mutant: rafId is cleared after update(), so not when update() throws.
rafIdClearedLast(id, threw) == IF threw THEN id ELSE 0

\* rafId after the frame callback (314-317): cleared before update() is
\* called, whether or not update() throws.
rafIdAfterFrame(id, threw) == 0

\* An animation frame: every queued callback clears rafId and runs update().
Frame ==
  /\ rafQueue > 0 \/ triggers > 0
  /\ LET s == runPasses(rafQueue, CtlState, selection, overlay)
     IN /\ Assign(s)
        /\ obs' = [passes |-> rafQueue, coalesced |-> triggers,
                   selVisible |-> s.selVisible, emitted |-> s.emitted]
  /\ rafId' = IF rafQueue > 0 THEN rafIdAfterFrame(rafId, FALSE) ELSE rafId
  /\ rafQueue' = 0
  /\ triggers' = 0
  /\ UNCHANGED <<selection, overlay, timers>>
  /\ UNCHANGED <<chatVars, page>>

\* An animation frame whose update() throws at its first DOM read: the
\* callback has cleared rafId, the catch of line 316 swallows the error and
\* the controller's variables stay as they were.
FrameThrows ==
  /\ rafQueue > 0
  /\ rafId' = rafIdAfterFrame(rafId, TRUE)
  /\ rafQueue' = 0
  /\ triggers' = 0
  /\ obs' = [passes |-> rafQueue, coalesced |-> triggers,
             selVisible |-> FALSE, emitted |-> <<>>]
  /\ UNCHANGED <<insidePopup, lastVisible, isMouseDown, pinned, forceClosed,
                 lastSelectionText, boxDisplay, boxPos, lastSignal>>
  /\ UNCHANGED <<selection, overlay, timers>>
  /\ UNCHANGED <<chatVars, page>>

\* The state after the script ran: nothing scheduled, then the update() of
\* content.js:323 over whatever selection the page already had.
InitVis ==
  /\ ChatIdle
  /\ selection \in Selections
  /\ overlay = <<>>
  /\ rafId = 0 /\ rafQueue = 0 /\ timers = 0 /\ triggers = 0
  /\ LET s0 == [ insidePopup |-> FALSE, lastVisible |-> FALSE, isMouseDown |-> FALSE,
                 pinned |-> FALSE, forceClosed |-> FALSE, lastSelectionText |-> 0,
                 display |-> "none", pos |-> <<0, 0>>, emitted |-> <<>>,
                 selVisible |-> FALSE ]
         s == update(s0, selection, overlay)
     IN /\ insidePopup = s.insidePopup
        /\ lastVisible = s.lastVisible
        /\ isMouseDown = s.isMouseDown
        /\ pinned = s.pinned
        /\ forceClosed = s.forceClosed
        /\ lastSelectionText = s.lastSelectionText
        /\ boxDisplay = s.display
        /\ boxPos = s.pos
        /\ lastSignal = IF s.emitted = <<>> THEN "none" ELSE s.emitted[Len(s.emitted)]
        /\ obs = [passes |-> 1, coalesced |-> 0, selVisible |-> s.selVisible,
                  emitted |-> s.emitted]

NextVis ==
  \/ \E sel \in Selections : SelectionChange(sel)
  \/ MouseDown
  \/ MouseUp
  \/ MouseUpTimer
  \/ KeyUp
  \/ Wheel
  \/ TouchMove
  \/ Resize
  \/ PopupResize
  \/ \E rs \in RectLists : Scroll(rs)
  \/ PointerEnter
  \/ PointerLeave
  \/ \E p \in BOOLEAN : PopupPin(p)
  \/ ForceClose
  \/ \E ov \in Overlays : OverlayChange(ov)
  \/ Frame

SpecVis == InitVis /\ [][NextVis]_vars

\* The scheduler under the triggers of the page, with passes that may throw.
\* requestAnimationFrame callbacks are run by the browser at its next frame:
\* the fairness condition of SpecSched.
NextSched ==
  \/ \E sel \in Selections : SelectionChange(sel)
  \/ MouseDown
  \/ MouseUp
  \/ MouseUpTimer
  \/ KeyUp
  \/ Frame
  \/ FrameThrows

\* The browser runs the frame callback it holds: the step of Frame or of
\* FrameThrows, seen on the browser's queue alone.
FrameCallbackRuns == rafQueue > 0 /\ rafQueue' = 0

SpecSched == InitVis /\ [][NextSched]_vars /\ WF_rafQueue(FrameCallbackRuns)

(***************************************************************************)
(* Response controller (ContentPopup.jsx): texts, the rate-limit gate,     *)
(* rendering, and the submit handlers.                                     *)
(***************************************************************************)
\* A piece of text: its kind and two numbers. A token is the i-th token of
\* request r; a rate-limit message carries its seconds.
Piece(k, a, b) == <<k, a, b>>
\* Texts as sequences of characters.
Str(cs) == [i \in 1..Len(cs) |-> Piece(cs[i], 0, 0)]
ClientLimitMsg(n) == <<Piece("Rate limit reached. Try again in Ns", n, 0)>>
ServerLimitMsg(n) == <<Piece("Too many requests, please try again in N seconds.", n, 0)>>
Entry(role, content) == [role |-> role, content |-> content]

CeilDiv(a, b) == IF a % b = 0 THEN a \div b ELSE (a \div b) + 1

RECURSIVE SeqMin(_)
SeqMin(q) == IF Len(q) = 1 THEN q[1] ELSE Min2(q[1], SeqMin(Tail(q)))

\* The stored timestamps that lie in the window ending at now.
recentOf(times, now) ==
  LET cutoff == now - RATE_WINDOW_MS
  IN SelectSeq(times, LAMBDA t : t > cutoff)

\* Mutant: the gate lets a submission through while exactly RATE_LIMIT are recent.
rateGateOffByOne(times, now) ==
  LET recent == recentOf(times, now)
  IN IF Len(recent) > RATE_LIMIT
     THEN [ ok |-> FALSE, times |-> times,
            wait |-> Max2(1, CeilDiv(SeqMin(recent) + RATE_WINDOW_MS - now, 1000)) ]
     ELSE [ok |-> TRUE, times |-> Append(recent, now), wait |-> 0]

\* Mutant: the gate counts every stored timestamp, stale ones too.
rateGateNeverExpires(times, now) ==
  IF Len(times) >= RATE_LIMIT
  THEN [ ok |-> FALSE, times |-> times,
         wait |-> Max2(1, CeilDiv(SeqMin(times) + RATE_WINDOW_MS - now, 1000)) ]
  ELSE [ok |-> TRUE, times |-> Append(times, now), wait |-> 0]

\* The rate-limit gate of the three submit handlers: whether the submission
\* passes, the timestamp list stored afterwards, and the seconds displayed.
rateGate(times, now) ==
  LET recent == recentOf(times, now)
  IN IF Len(recent) >= RATE_LIMIT
     THEN [ ok |-> FALSE, times |-> times,
            wait |-> Max2(1, CeilDiv(SeqMin(recent) + RATE_WINDOW_MS - now, 1000)) ]
     ELSE [ok |-> TRUE, times |-> Append(recent, now), wait |-> 0]

\* The response view is open: response || error || loading.
open(s) == s.response # <<>> \/ s.error # "" \/ s.loading

\* resetState() on the React state and on the refs.
resetStateSt(s) ==
  [ s EXCEPT !.response = <<>>, !.error = "", !.loading = FALSE, !.history = <<>>,
             !.contexts = <<>>, !.limitReached = 0, !.limitShown = FALSE ]
\* Mutant: the reset also empties the timestamp window of the rate limiter.
resetStateRefsAll(r) ==
  [r EXCEPT !.responseRef = <<>>, !.appendedOnceRef = FALSE, !.requestTimesRef = <<>>]

resetStateRefs(r) ==
  [r EXCEPT !.responseRef = <<>>, !.appendedOnceRef = FALSE]

\* A render of state s over the previous render v, with its effects: the
\* response ref sync (199-201), the limit reset effect (292-299) and the
\* hasShownLimitRef sync of ResponseSection.
Rendered(s, r, v) ==
  LET limitDepsChanged == s.limitReached # v.limitReached \/ s.limitShown # v.limitShown
      shown == IF s.limitReached = 0 THEN FALSE ELSE s.limitShown
      s2 == [s EXCEPT !.limitShown = shown]
  IN [ st |-> s2,
       refs |-> [ r EXCEPT
          !.responseRef = IF s.response # v.response THEN s.response ELSE @,
          !.limitActionLockRef = IF limitDepsChanged /\ s.limitReached = 0 THEN FALSE ELSE @,
          !.hasShownLimitRef =
             IF ~open(s2) THEN FALSE
             ELSE IF ~open(v) THEN shown
             ELSE IF s.limitShown # v.limitShown \/ shown # v.limitShown THEN shown
             ELSE @ ] ]

\* State written inside a React event handler: rendered before the handler's
\* event ends.
Commit(s, r) ==
  LET x == Rendered(s, r, view)
  IN /\ st' = x.st
     /\ refs' = x.refs
     /\ view' = x.st

\* The bookkeeping of writes not rendered yet: after a render, and after a
\* write (setting a state to its current value schedules no render).
Clean(n) == [n EXCEPT !.dirty = 0]
Dirty(n) == [n EXCEPT !.dirty = IF st' = st THEN @ ELSE @ + 1]

\* State written by a window listener or a network callback: rendered later.
Later(s, r) ==
  /\ net.dirty < MaxLag
  /\ st' = s
  /\ refs' = r
  /\ UNCHANGED view

\* The render React schedules after such writes.
RenderNoting(o, pg) ==
  /\ net.dirty > 0
  /\ Commit(st, refs)
  /\ chatObs' = o
  /\ net' = Clean(net)
  /\ page' = pg
  /\ UNCHANGED <<reqs, clock, popupOpen>>
  /\ UNCHANGED visVars

RenderObs(o) == RenderNoting(o, page)

Render == RenderObs(NoSubmit)

\* A request as callGemini starts it: awaiting the fetch of the stream.
NewReq(now) ==
  [ at |-> now, phase |-> "fetch", ntok |-> 0, sawDone |-> FALSE,
    pend |-> {}, statusPending |-> 0, appends |-> 0, toks |-> <<>>,
    alone |-> \A i \in 1..Len(reqs) : reqs[i].phase = "closed" /\ reqs[i].pend = {} ]

\* The requests already started, when one more starts: those still running
\* are no longer alone.
Overlapped(rs) ==
  [ i \in 1..Len(rs) |->
      IF rs[i].phase = "closed" /\ rs[i].pend = {} THEN rs[i]
      ELSE [rs[i] EXCEPT !.alone = FALSE] ]

\* callGemini(prompt) up to its first await.
\* Mutant: the response is not cleared when a request starts.
callGeminiStartStKeeps(s) ==
  [s EXCEPT !.loading = TRUE, !.error = ""]

callGeminiStartSt(s) ==
  [s EXCEPT !.loading = TRUE, !.error = "", !.response = <<>>]
callGeminiStartRefs(r) ==
  [r EXCEPT !.appendedOnceRef = FALSE]

\* Accepted submissions (the ghost log kept in reqs) inside the window now.
InWindow ==
  Cardinality({ i \in 1..Len(reqs) : reqs[i].at > clock - RATE_WINDOW_MS })

\* Mutant: the rejection message is also appended to the history.
RejectedAppends(g) ==
  /\ Commit([st EXCEPT !.error = "", !.response = ClientLimitMsg(g.wait),
                       !.history = Append(@, Entry("assistant", ClientLimitMsg(g.wait)))], refs)
  /\ chatObs' = [act |-> "reject", wait |-> g.wait, inWindow |-> InWindow]
  /\ net' = Clean(net)
  /\ UNCHANGED <<reqs, clock, popupOpen>>

\* The gate rejected the submission: lines 495-500, 534-539, 568-573.
Rejected(g) ==
  /\ Commit([st EXCEPT !.error = "", !.response = ClientLimitMsg(g.wait)], refs)
  /\ chatObs' = [act |-> "reject", wait |-> g.wait, inWindow |-> InWindow]
  /\ net' = Clean(net)
  /\ UNCHANGED <<reqs, clock, popupOpen>>

\* The gate accepted it: the timestamp is stored, the user entry appended,
\* the context snapshot set, and callGemini started.
AcceptedNoting(kind, entry, ctx, g, cap, o) ==
  /\ Len(reqs) < cap
  /\ Commit(callGeminiStartSt([st EXCEPT !.history = Append(@, entry), !.contexts = ctx]),
            callGeminiStartRefs([refs EXCEPT !.requestTimesRef = g.times]))
  /\ reqs' = Append(Overlapped(reqs), NewReq(clock))
  /\ chatObs' = o
  /\ net' = Clean(net)
  /\ UNCHANGED <<clock, popupOpen>>

Accepted(kind, entry, ctx, g, cap) ==
  AcceptedNoting(kind, entry, ctx, g, cap,
                 [act |-> "accept", wait |-> 0, inWindow |-> InWindow])

\* handleExplainClick: the Explain button (enabled while not loading), with
\* the live selection's trimmed text (0 is empty).
handleExplainClick(text, cap) ==
  /\ popupOpen
  /\ ~view.loading
  /\ LET g == rateGate(refs.requestTimesRef, clock)
     IN IF text = 0
        THEN /\ Commit([st EXCEPT !.error = "Please select some text to explain.",
                                  !.response = <<>>], refs)
             /\ chatObs' = NoSubmit
             /\ net' = Clean(net)
             /\ UNCHANGED <<reqs, clock, popupOpen>>
        ELSE IF ~g.ok
        THEN Rejected(g)
        ELSE Accepted("explain", Entry("user", <<Piece("Prompt", text, 0)>>),
                      <<"explain">>, g, cap)
  /\ UNCHANGED <<visVars, page>>

\* handleTopSearchSubmit: Enter or the icon of the top search bar, with a
\* non-empty question.
handleTopSearchSubmit(cap) ==
  /\ popupOpen
  /\ LET g == rateGate(refs.requestTimesRef, clock)
     IN IF ~g.ok
        THEN Rejected(g)
        ELSE Accepted("search", Entry("user", <<Piece("SearchPrompt", 0, 0)>>),
                      <<"search">>, g, cap)
  /\ UNCHANGED <<visVars, page>>

\* handleDeeperSubmit: the deeper bar of the open response view, with a
\* non-empty follow-up, while the rendered server-limit counter is 0.
handleDeeperSubmit(cap) ==
  /\ popupOpen
  /\ open(view)
  /\ view.limitReached < 1
  /\ LET g == rateGate(refs.requestTimesRef, clock)
     IN IF ~g.ok
        THEN Rejected(g)
        ELSE Accepted("deeper", Entry("user", <<Piece("follow-up", 0, 0)>>),
                      st.contexts, g, cap)
  /\ UNCHANGED <<visVars, page>>

\* part_003:62-74: the prompt holds the history, the question and the context.
DeeperPrompt(history, question, context) ==
  [history |-> history, question |-> question, context |-> context]

\* historyRef.current and contextsRef.current: the effects of lines 204-205
\* copy the state of each render.
historyRef == view.history
contextsRef == view.contexts

\* handleDeeperSubmit with the prompt it passes to callGemini, and the history
\* written so far, left in the observation.
handleDeeperSubmitNoting(cap) ==
  /\ popupOpen
  /\ open(view)
  /\ view.limitReached < 1
  /\ LET g == rateGate(refs.requestTimesRef, clock)
         val == <<Piece("follow-up", 0, 0)>>
         prompt == DeeperPrompt(historyRef, val, contextsRef)
     IN IF ~g.ok
        THEN Rejected(g)
        ELSE AcceptedNoting("deeper", Entry("user", val), st.contexts, g, cap,
                            [act |-> "deeper", wait |-> 0, inWindow |-> InWindow,
                             prompt |-> prompt, before |-> st.history])
  /\ UNCHANGED <<visVars, page>>

\* window 'popup:open': onOpen resets the state and asks the limit status.
PopupOpen ==
  /\ ~popupOpen
  /\ net.opens < MaxOpens
  /\ net.openStatus < MaxPendingStatus
  /\ popupOpen' = TRUE
  /\ Later(resetStateSt(st), resetStateRefs(refs))
  /\ net' = Dirty([net EXCEPT !.openStatus = @ + 1, !.opens = @ + 1])
  /\ chatObs' = NoSubmit
  /\ page' = [page EXCEPT !.sel.originalSelection = <<>>]
  /\ UNCHANGED <<reqs, clock>>
  /\ UNCHANGED visVars

\* The limit status asked by onOpen arrives (limit 0 when the fetch failed).
OpenStatusReturns(limited, secs) ==
  /\ net.openStatus > 0
  /\ Later([st EXCEPT !.limitReached =
                        IF limited THEN (IF secs = 0 THEN 1 ELSE secs) ELSE 0], refs)
  /\ net' = Dirty([net EXCEPT !.openStatus = @ - 1])
  /\ chatObs' = NoSubmit
  /\ UNCHANGED <<reqs, clock, popupOpen>>
  /\ UNCHANGED <<visVars, page>>

\* window 'popup:close': onClose clears the overlay and the saved range and
\* resets the state (setOriginalSelection('') included). content.js dispatches it
\* only while not pinned, and the pin effect (592-597) keeps pinned equal to
\* the rendered open(view).
PopupClose ==
  /\ popupOpen
  /\ ~open(view)
  /\ popupOpen' = FALSE
  /\ Later(resetStateSt(st), resetStateRefs(refs))
  /\ chatObs' = NoSubmit
  /\ net' = Dirty(net)
  /\ page' = [page EXCEPT !.sel.overlayEl = Null, !.sel.selectionRangeRef = Null,
                          !.sel.body = clear(@),
                          !.sel.originalSelection = <<>>]
  /\ UNCHANGED <<reqs, clock>>
  /\ UNCHANGED visVars

\* The X button of the response view: resets, clears the overlay, the saved
\* range and the page's selection, then popup:forceClose hides the popup.
CloseButton ==
  /\ popupOpen
  /\ open(view)
  /\ popupOpen' = FALSE
  /\ Commit(resetStateSt(st), resetStateRefs(refs))
  /\ chatObs' = NoSubmit
  /\ net' = Clean(net)
  /\ page' = [page EXCEPT !.sel.overlayEl = Null, !.sel.selectionRangeRef = Null,
                          !.sel.body = clear(@),
                          !.sel.originalSelection = <<>>,
                          !.sel.live = [rangeCount |-> 0]]
  /\ UNCHANGED <<reqs, clock>>
  /\ UNCHANGED visVars

\* Escape while the response view is not open: popup:forceClose hides the
\* popup, and nothing is reset.
EscapeKey ==
  /\ popupOpen
  /\ ~open(view)
  /\ popupOpen' = FALSE
  /\ chatObs' = NoSubmit
  /\ UNCHANGED <<st, refs, view, reqs, clock, net>>
  /\ UNCHANGED <<visVars, page>>

\* Time passes.
AdvanceSteps == {1, 59999}
Advance(d) ==
  /\ net.advances < MaxAdvances
  /\ clock' = clock + d
  /\ net' = [net EXCEPT !.advances = @ + 1]
  /\ chatObs' = NoSubmit
  /\ UNCHANGED <<st, refs, view, reqs, popupOpen>>
  /\ UNCHANGED <<visVars, page>>

(***************************************************************************)
(* Requests in flight: callGeminiStream's events and callGemini's          *)
(* callbacks (geminiClient.js 23-93, ContentPopup.jsx 366-474).            *)
(***************************************************************************)
\* JavaScript's  a || d  on numbers.
orElse(a, d) == IF a = 0 THEN d ELSE a

\* status.limit ? (Number(status.secondsRemaining || 0) || 1) : 0
limitOf(limited, secs) == IF limited THEN orElse(secs, 1) ELSE 0

StatusSecs == 0..MaxStatusSecs

isSpace(p) == p[1] \in {" ", "\n"}

RECURSIVE dropSpaces(_)
dropSpaces(q) ==
  IF q # <<>> /\ isSpace(q[1]) THEN dropSpaces(Tail(q)) ELSE q

\* String.prototype.trim
trim(q) ==
  LET RECURSIVE trimEnd(_)
      trimEnd(x) ==
        IF x # <<>> /\ isSpace(x[Len(x)]) THEN trimEnd(SubSeq(x, 1, Len(x) - 1)) ELSE x
  IN trimEnd(dropSpaces(q))

\* onDone appends the final text, (responseRef.current || '').trim(): it is
\* non-empty and the flag is not set.
onDoneAppends(s, rf) ==
  /\ trim(rf.responseRef) # <<>>
  /\ ~rf.appendedOnceRef

\* Mutant: onDone leaves loading as it is.
onDoneStKeepsLoading(s, rf) ==
  [ s EXCEPT !.history = IF onDoneAppends(s, rf)
                         THEN Append(@, Entry("assistant", trim(rf.responseRef)))
                         ELSE @ ]

\* onDone (388-401) up to its await, on the state and on the refs.
onDoneSt(s, rf) ==
  [ s EXCEPT !.loading = FALSE,
             !.history = IF onDoneAppends(s, rf)
                         THEN Append(@, Entry("assistant", trim(rf.responseRef)))
                         ELSE @ ]
onDoneRefs(s, rf) ==
  [rf EXCEPT !.appendedOnceRef = IF onDoneAppends(s, rf) THEN TRUE ELSE @]

\* The request's record after an onDone call: one more status fetch pending.
onDoneReq(q, s, rf) ==
  [ q EXCEPT !.statusPending = @ + 1,
             !.appends = IF onDoneAppends(s, rf) THEN @ + 1 ELSE @ ]

\* The catch of callGemini for an error that is not a 429 (469-474).
catchSt(s, msg) == [s EXCEPT !.error = msg, !.loading = FALSE]

\* fetch() rejects: callGeminiStream throws before any callback.
FetchRejects(r) ==
  /\ reqs[r].phase = "fetch"
  /\ reqs' = [reqs EXCEPT ![r].phase = "closed"]
  /\ Later(catchSt(st, "network error"), refs)
  /\ chatObs' = NoSubmit
  /\ net' = Dirty(net)
  /\ UNCHANGED <<clock, popupOpen>>
  /\ UNCHANGED <<visVars, page>>

\* The response is not ok: onError starts (a status fetch for 429, else the
\* non-streaming fallback), then the throw reaches callGemini's catch.
FetchNotOk(r, code) ==
  /\ reqs[r].phase = "fetch"
  /\ IF code = 429
     THEN /\ reqs' = [reqs EXCEPT ![r].phase = "closed", ![r].pend = {"onError429", "catch429"}]
          /\ Later(st, refs)
     ELSE /\ reqs' = [reqs EXCEPT ![r].phase = "closed", ![r].pend = {"fallback"}]
          /\ Later(catchSt(st, "Gemini stream failed"), refs)
  /\ chatObs' = NoSubmit
  /\ net' = Dirty(net)
  /\ UNCHANGED <<clock, popupOpen>>
  /\ UNCHANGED <<visVars, page>>

\* The response is ok: the reader loop starts.
StreamOpens(r) ==
  /\ reqs[r].phase = "fetch"
  /\ reqs' = [reqs EXCEPT ![r].phase = "stream"]
  /\ chatObs' = NoSubmit
  /\ UNCHANGED <<st, refs, view, clock, net, popupOpen>>
  /\ UNCHANGED <<visVars, page>>

\* Characters are pieces too: the period, the blank, the line break; every
\* other piece is text without periods or white space.
Dot == Piece(".", 0, 0)
Nl == Piece("\n", 0, 0)
\* Mutant: the replacement needs three white-space characters.
RECURSIVE normalizeThree(_)
normalizeThree(q) ==
  IF q = <<>> THEN <<>>
  ELSE IF q[1] = Dot /\ Len(q) >= 4 /\ isSpace(q[2]) /\ isSpace(q[3]) /\ isSpace(q[4])
  THEN <<Dot, Nl, Nl>> \o normalizeThree(dropSpaces(Tail(q)))
  ELSE <<q[1]>> \o normalizeThree(Tail(q))

\* next.replace(/\.\s{2,}/g, '.\n\n')
RECURSIVE normalize(_)
normalize(q) ==
  IF q = <<>> THEN <<>>
  ELSE IF q[1] = Dot /\ Len(q) >= 3 /\ isSpace(q[2]) /\ isSpace(q[3])
  THEN <<Dot, Nl, Nl>> \o normalize(dropSpaces(Tail(q)))
  ELSE <<q[1]>> \o normalize(Tail(q))

\* Mutant: only the token is normalized, not the buffer with the token.
onTokenAlone(prev, t) == prev \o normalize(t)

\* onToken's updater: (prev) => normalized (prev ? prev + t : t)
onToken(prev, t) == normalize(prev \o t)

\* A data event carrying the non-empty text t: onToken. o is what the step
\* leaves in the observation.
Deliver(r, t, cap, o) ==
  /\ reqs[r].phase = "stream"
  /\ ~reqs[r].sawDone
  /\ reqs[r].ntok < cap
  /\ reqs' = [reqs EXCEPT ![r].ntok = @ + 1, ![r].toks = Append(@, t)]
  /\ Later([st EXCEPT !.response = onToken(@, t)], refs)
  /\ chatObs' = o
  /\ net' = Dirty(net)
  /\ UNCHANGED <<clock, popupOpen>>
  /\ UNCHANGED <<visVars, page>>

\* A data event with a non-empty string: onToken appends it to response.
Token(r) == Deliver(r, <<Piece("token", r, reqs[r].ntok + 1)>>, MaxTok, NoSubmit)

\* The [DONE] data event: onDone, and the reader loop goes on.
DoneSentinel(r) ==
  /\ reqs[r].phase = "stream"
  /\ ~reqs[r].sawDone
  /\ reqs' = [reqs EXCEPT ![r] = [onDoneReq(@, st, refs) EXCEPT !.sawDone = TRUE]]
  /\ Later(onDoneSt(st, refs), onDoneRefs(st, refs))
  /\ chatObs' = NoSubmit
  /\ net' = Dirty(net)
  /\ UNCHANGED <<clock, popupOpen>>
  /\ UNCHANGED <<visVars, page>>

\* The stream ends: onDone is called after the loop.
StreamEnd(r) ==
  /\ reqs[r].phase = "stream"
  /\ reqs' = [reqs EXCEPT ![r] = [onDoneReq(@, st, refs) EXCEPT !.phase = "closed"]]
  /\ Later(onDoneSt(st, refs), onDoneRefs(st, refs))
  /\ chatObs' = NoSubmit
  /\ net' = Dirty(net)
  /\ UNCHANGED <<clock, popupOpen>>
  /\ UNCHANGED <<visVars, page>>

\* reader.read() throws: onError starts the fallback, then the rethrow
\* reaches callGemini's catch.
StreamError(r) ==
  /\ reqs[r].phase = "stream"
  /\ reqs' = [reqs EXCEPT ![r].phase = "closed", ![r].pend = @ \cup {"fallback"}]
  /\ Later(catchSt(st, "network error"), refs)
  /\ chatObs' = NoSubmit
  /\ net' = Dirty(net)
  /\ UNCHANGED <<clock, popupOpen>>
  /\ UNCHANGED <<visVars, page>>

\* The limit status asked by an onDone arrives.
StatusReturns(r, limited, secs) ==
  /\ reqs[r].statusPending > 0
  /\ reqs' = [reqs EXCEPT ![r].statusPending = @ - 1]
  /\ Later([st EXCEPT !.limitReached = limitOf(limited, secs)], refs)
  /\ chatObs' = NoSubmit
  /\ net' = Dirty(net)
  /\ UNCHANGED <<clock, popupOpen>>
  /\ UNCHANGED <<visVars, page>>

\* The limit status asked on a 429 arrives (onError 405-418, the fallback's
\* catch 438-448, callGemini's catch 461-469): the server message is shown.
LimitStatus(r, k, secs, o) ==
  /\ k \in reqs[r].pend \cap {"onError429", "catch429", "fb429"}
  /\ reqs' = [reqs EXCEPT ![r].pend = @ \ {k}]
  /\ Later([st EXCEPT !.response = ServerLimitMsg(orElse(secs, 60)),
                      !.limitReached = orElse(secs, 60),
                      !.loading = FALSE],
           [refs EXCEPT !.appendedOnceRef = TRUE])
  /\ chatObs' = o
  /\ net' = Dirty(net)
  /\ UNCHANGED <<clock, popupOpen>>
  /\ UNCHANGED <<visVars, page>>

LimitStatusReturns(r, k, secs) == LimitStatus(r, k, secs, NoSubmit)

\* callGeminiAPI of the fallback settles: with a text, with a 429, or with
\* another failure (420-453).
FallbackReturns(r, out) ==
  /\ "fallback" \in reqs[r].pend
  /\ LET text == normalize(<<Piece("full", r, 0)>>)
         app == ~refs.appendedOnceRef
     IN CASE out = "text" ->
               /\ reqs' = [reqs EXCEPT ![r].pend = (@ \ {"fallback"}) \cup {"fbStatus"},
                                       ![r].appends = IF app THEN @ + 1 ELSE @]
               /\ Later([st EXCEPT !.response = text,
                                   !.history = IF app THEN Append(@, Entry("assistant", text))
                                               ELSE @],
                        [refs EXCEPT !.appendedOnceRef = TRUE])
          [] out = "429" ->
               /\ reqs' = [reqs EXCEPT ![r].pend = (@ \ {"fallback"}) \cup {"fb429"}]
               /\ Later(st, refs)
          [] OTHER ->
               /\ reqs' = [reqs EXCEPT ![r].pend = @ \ {"fallback"}]
               /\ Later(catchSt(st, "Gemini stream failed"), refs)
  /\ chatObs' = NoSubmit
  /\ net' = Dirty(net)
  /\ UNCHANGED <<clock, popupOpen>>
  /\ UNCHANGED <<visVars, page>>

\* The limit status asked after the fallback's text arrives; the finally
\* clears loading.
FallbackStatusReturns(r, limited, secs) ==
  /\ "fbStatus" \in reqs[r].pend
  /\ reqs' = [reqs EXCEPT ![r].pend = @ \ {"fbStatus"}]
  /\ Later([st EXCEPT !.limitReached = limitOf(limited, secs), !.loading = FALSE], refs)
  /\ chatObs' = NoSubmit
  /\ net' = Dirty(net)
  /\ UNCHANGED <<clock, popupOpen>>
  /\ UNCHANGED <<visVars, page>>

\* Enter or the icon of the deeper bar while the rendered server-limit
\* counter is at least 1: the first attempt calls showLimitReachedOnce,
\* which takes the lock and asks the limit status (part_001 242-252,
\* ContentPopup.jsx 326-330).
DeeperBlocked ==
  /\ popupOpen
  /\ open(view)
  /\ view.limitReached >= 1
  /\ ~view.limitShown
  /\ ~refs.hasShownLimitRef
  /\ refs' = [refs EXCEPT !.hasShownLimitRef = TRUE, !.limitActionLockRef = TRUE]
  /\ net' = [net EXCEPT !.limitAction = IF refs.limitActionLockRef THEN @ ELSE @ + 1]
  /\ chatObs' = NoSubmit
  /\ UNCHANGED <<st, view, reqs, clock, popupOpen>>
  /\ UNCHANGED <<visVars, page>>

\* The status awaited by showLimitReachedOnce arrives (331-336).
LimitActionReturns(secs) ==
  /\ net.limitAction > 0
  /\ Later([st EXCEPT !.response = ServerLimitMsg(orElse(secs, 60)),
                      !.limitReached = orElse(secs, 60),
                      !.limitShown = TRUE], refs)
  /\ net' = Dirty([net EXCEPT !.limitAction = @ - 1])
  /\ chatObs' = NoSubmit
  /\ UNCHANGED <<reqs, clock, popupOpen>>
  /\ UNCHANGED <<visVars, page>>

\* The 1 s interval started by the countdown effect while the rendered
\* counter is positive (302-323).
\* Mutant: the countdown does not stop at 0.
TickBelowZero(cap, o) ==
  /\ view.limitReached > 0
  /\ net.ticks < cap
  /\ Later([st EXCEPT !.limitReached = @ - 1], refs)
  /\ net' = Dirty([net EXCEPT !.ticks = @ + 1])
  /\ chatObs' = o
  /\ UNCHANGED <<reqs, clock, popupOpen>>
  /\ UNCHANGED <<visVars, page>>

TickWhen(on, cap, o) ==
  /\ on
  /\ net.ticks < cap
  /\ Later([st EXCEPT !.limitReached = Max2(0, @ - 1)], refs)
  /\ net' = Dirty([net EXCEPT !.ticks = @ + 1])
  /\ chatObs' = o
  /\ UNCHANGED <<reqs, clock, popupOpen>>
  /\ UNCHANGED <<visVars, page>>

Tick(cap, o) == TickWhen(view.limitReached > 0, cap, o)

LimitTick == Tick(MaxTicks, NoSubmit)

\* The content script idle: no selection, popup hidden.
VisIdle ==
  /\ insidePopup = FALSE /\ lastVisible = FALSE /\ rafId = 0 /\ isMouseDown = FALSE
  /\ pinned = FALSE /\ forceClosed = FALSE /\ lastSelectionText = 0
  /\ boxDisplay = "none" /\ boxPos = <<0, 0>>
  /\ selection = [text |-> 0, collapsed |-> TRUE, rects |-> <<>>]
  /\ overlay = <<>> /\ rafQueue = 0 /\ timers = 0 /\ triggers = 0
  /\ lastSignal = "none" /\ obs = [NoPass EXCEPT !.passes = 1]

InitRate == VisIdle /\ ChatIdle

NextRate ==
  \/ handleExplainClick(1, MaxSubmits)
  \/ handleTopSearchSubmit(MaxSubmits)
  \/ handleDeeperSubmit(MaxSubmits)
  \/ PopupOpen
  \/ \E limited \in BOOLEAN, secs \in 0..MaxStatusSecs : OpenStatusReturns(limited, secs)
  \/ PopupClose
  \/ CloseButton
  \/ EscapeKey
  \/ Render
  \/ \E d \in AdvanceSteps : Advance(d)

SpecRate == InitRate /\ [][NextRate]_vars

InitChat == VisIdle /\ ChatIdle

Requests == 1..Len(reqs)

NextChat ==
  \/ \E text \in 0..1 : handleExplainClick(text, MaxReq)
  \/ handleTopSearchSubmit(MaxReq)
  \/ handleDeeperSubmit(MaxReq)
  \/ PopupOpen
  \/ \E limited \in BOOLEAN, secs \in StatusSecs : OpenStatusReturns(limited, secs)
  \/ PopupClose
  \/ CloseButton
  \/ EscapeKey
  \/ Render
  \/ DeeperBlocked
  \/ \E secs \in StatusSecs : LimitActionReturns(secs)
  \/ LimitTick
  \/ \E r \in Requests : FetchRejects(r)
  \/ \E r \in Requests, code \in {429, 500} : FetchNotOk(r, code)
  \/ \E r \in Requests : StreamOpens(r)
  \/ \E r \in Requests : Token(r)
  \/ \E r \in Requests : DoneSentinel(r)
  \/ \E r \in Requests : StreamEnd(r)
  \/ \E r \in Requests : StreamError(r)
  \/ \E r \in Requests, limited \in BOOLEAN, secs \in StatusSecs : StatusReturns(r, limited, secs)
  \/ \E r \in Requests, secs \in StatusSecs :
        \E k \in {"onError429", "catch429", "fb429"} : LimitStatusReturns(r, k, secs)
  \/ \E r \in Requests, out \in {"text", "429", "failed"} : FallbackReturns(r, out)
  \/ \E r \in Requests, limited \in BOOLEAN, secs \in StatusSecs :
        FallbackStatusReturns(r, limited, secs)

SpecChat == InitChat /\ [][NextChat]_vars

\* A network call of request r returns or fails: every callback of
\* callGeminiStream, of the fallback and of the limit-status fetches.
NetworkReturns(r) ==
  \/ FetchRejects(r)
  \/ \E code \in {429, 500} : FetchNotOk(r, code)
  \/ StreamOpens(r)
  \/ Token(r)
  \/ DoneSentinel(r)
  \/ StreamEnd(r)
  \/ StreamError(r)
  \/ \E limited \in BOOLEAN, secs \in StatusSecs : StatusReturns(r, limited, secs)
  \/ \E secs \in StatusSecs, k \in {"onError429", "catch429", "fb429"} :
        LimitStatusReturns(r, k, secs)
  \/ \E out \in {"text", "429", "failed"} : FallbackReturns(r, out)
  \/ \E limited \in BOOLEAN, secs \in StatusSecs : FallbackStatusReturns(r, limited, secs)

\* Submissions, resets and the network's answers in any order, where every
\* network call eventually returns or fails and React renders the state it
\* was given.
NextLive ==
  \/ PopupOpen
  \/ \E limited \in BOOLEAN, secs \in StatusSecs : OpenStatusReturns(limited, secs)
  \/ CloseButton
  \/ handleExplainClick(1, MaxLiveReq)
  \/ handleTopSearchSubmit(MaxLiveReq)
  \/ Render
  \/ \E r \in Requests : NetworkReturns(r)

SpecLive ==
  /\ InitChat
  /\ [][NextLive]_vars
  /\ WF_vars(Render)
  /\ WF_vars(\E r \in Requests : NetworkReturns(r))

\* Mutant: the deeper bar never takes the counter for a limit.
deeperLimitedNever(limitReached) == FALSE

\* The test of the deeper bar's handlers (part_001 243, 286, 307) on the
\* limitReached prop they were rendered with.
deeperLimited(limitReached) == limitReached >= 1

\* Enter in the deeper input, or a click or Enter/Space on its icon, with a
\* non-empty question (part_001 239-263, 284-323). Under the limit the first
\* attempt calls onLimitAction, which is showLimitReachedOnce (326-330), and
\* every attempt returns before the submission; else onDeeperSubmit is called
\* and the input cleared. The observation notes the counter the handler saw
\* and what it did.
DeeperKey(cap) ==
  /\ popupOpen
  /\ open(view)
  /\ IF deeperLimited(view.limitReached)
     THEN LET first == ~view.limitShown /\ ~refs.hasShownLimitRef
              starts == first /\ ~refs.limitActionLockRef
          IN /\ refs' = IF first
                        THEN [refs EXCEPT !.hasShownLimitRef = TRUE,
                                          !.limitActionLockRef = TRUE]
                        ELSE refs
             /\ net' = [net EXCEPT !.limitAction = IF starts THEN @ + 1 ELSE @]
             /\ chatObs' = [act |-> "deeperKey", counter |-> view.limitReached,
                            submitted |-> FALSE, cleared |-> FALSE, limitAction |-> starts]
             /\ UNCHANGED <<st, view, reqs, clock, popupOpen>>
     ELSE LET g == rateGate(refs.requestTimesRef, clock)
          IN IF ~g.ok
             THEN Rejected(g)
             ELSE AcceptedNoting("deeper", Entry("user", <<Piece("follow-up", 0, 0)>>),
                                 st.contexts, g, cap,
                                 [act |-> "deeperKey", counter |-> view.limitReached,
                                  submitted |-> TRUE, cleared |-> TRUE,
                                  limitAction |-> FALSE])
  /\ UNCHANGED <<visVars, page>>

\* A response view whose server-limit counter is set by the limit status and
\* counted down, and the keys of the deeper bar.
NextBlocked ==
  \/ PopupOpen
  \/ \E limited \in BOOLEAN, secs \in StatusSecs : OpenStatusReturns(limited, secs)
  \/ CloseButton
  \/ handleTopSearchSubmit(1)
  \/ DeeperKey(MaxBlockedReq)
  \/ Render
  \/ \E r \in Requests : StreamOpens(r)
  \/ \E r \in Requests : Token(r)
  \/ \E r \in Requests : StreamEnd(r)
  \/ \E r \in Requests, limited \in BOOLEAN, secs \in StatusSecs : StatusReturns(r, limited, secs)
  \/ \E secs \in StatusSecs : LimitActionReturns(secs)
  \/ LimitTick

SpecBlocked == InitChat /\ [][NextBlocked]_vars

\* Two requests whose streams overlap, on a network that answers them.
NextOverlap ==
  \/ handleExplainClick(1, MaxOverlap)
  \/ handleTopSearchSubmit(MaxOverlap)
  \/ handleDeeperSubmit(MaxOverlap)
  \/ PopupOpen
  \/ CloseButton
  \/ Render
  \/ \E r \in Requests : StreamOpens(r)
  \/ \E r \in Requests : Token(r)
  \/ \E r \in Requests : DoneSentinel(r)
  \/ \E r \in Requests : StreamEnd(r)
  \/ \E r \in Requests, limited \in BOOLEAN, secs \in StatusSecs : StatusReturns(r, limited, secs)

SpecOverlap == InitChat /\ [][NextOverlap]_vars

\* The tokens a stream may carry: those of "The ", "theory. ", "  More."
\* and short ones around the period.
TokenTexts ==
  { Str(<<"T", "h", "e", " ">>),
    Str(<<"t", "h", "e", "o", "r", "y", ".", " ">>),
    Str(<<" ", " ", "M", "o", "r", "e", ".">>),
    Str(<<".">>), Str(<<" ">>), Str(<<"\n", "x">>) }

\* A stream's token with the buffer it met.
DeliverText(r, t, cap) ==
  Deliver(r, t, cap, [act |-> "token", r |-> r, prev |-> st.response, tok |-> t])

\* Requests one after another or overlapping, their streams carrying texts.
NextTok ==
  \/ PopupOpen
  \/ handleTopSearchSubmit(MaxTokReq)
  \/ Render
  \/ \E r \in Requests : StreamOpens(r)
  \/ \E r \in Requests, t \in TokenTexts : DeliverText(r, t, MaxStreamTok)
  \/ \E r \in Requests : StreamEnd(r)

SpecTok == InitChat /\ [][NextTok]_vars

\* The texts of the streams of two submissions.
ReplayTexts == { Str(<<".">>), Str(<<" ", " ">>), Str(<<"x">>) }

\* Two submissions, one after the other or overlapping, with their streams.
NextReplay ==
  \/ PopupOpen
  \/ handleTopSearchSubmit(MaxReplayReq)
  \/ Render
  \/ \E r \in Requests : StreamOpens(r)
  \/ \E r \in Requests, t \in ReplayTexts : DeliverText(r, t, MaxReplayTok)
  \/ \E r \in Requests : DoneSentinel(r)
  \/ \E r \in Requests : StreamEnd(r)

SpecReplay == InitChat /\ [][NextReplay]_vars

\* A submission from the search bar and follow-ups from the deeper bar.
NextDeeper ==
  \/ PopupOpen
  \/ handleTopSearchSubmit(MaxDeeperReq)
  \/ handleDeeperSubmitNoting(MaxDeeperReq)
  \/ Render
  \/ \E r \in Requests : StreamOpens(r)
  \/ \E r \in Requests : Token(r)
  \/ \E r \in Requests : StreamEnd(r)
  \/ \E r \in Requests, limited \in BOOLEAN, secs \in StatusSecs : StatusReturns(r, limited, secs)

SpecDeeper == InitChat /\ [][NextDeeper]_vars

\* What the last limit status of a 429 reported, and the ticks since.
Ticked(o) == IF o.act = "429" THEN [o EXCEPT !.ticks = @ + 1] ELSE o

\* A submission answered with 429, the two limit-status fetches it starts
\* and the countdown.
NextLimit ==
  \/ PopupOpen
  \/ handleTopSearchSubmit(1)
  \/ RenderObs(chatObs)
  \/ \E r \in Requests : FetchNotOk(r, 429)
  \/ \E r \in Requests, k \in {"onError429", "catch429"}, secs \in 0..MaxLimitSecs :
       LimitStatus(r, k, secs, [act |-> "429", secs |-> secs, ticks |-> 0])
  \/ Tick(MaxLimitTicks, Ticked(chatObs))

SpecLimit == InitChat /\ [][NextLimit]_vars

\* clearInterval(limitTimerRef.current) and the ref set to null (304-307 and
\* 318-321); page.timer.active holds the intervals not cleared, 0 is null.
clearLimitTimer(t) ==
  IF t.limitTimerRef # 0
  THEN [t EXCEPT !.active = @ \ {t.limitTimerRef}, !.limitTimerRef = 0]
  ELSE t

\* Mutant: the effect schedules without clearing the timer it has.
countdownEffectLeaky(t, limitReached) ==
  IF limitReached > 0
  THEN [t EXCEPT !.active = @ \cup {t.made + 1}, !.limitTimerRef = t.made + 1,
                 !.made = @ + 1]
  ELSE t

\* The countdown effect when limitReached changed (302-323): the cleanup of
\* the previous run, then the body for the new value.
countdownEffect(t, limitReached) ==
  LET c == clearLimitTimer(clearLimitTimer(t))
  IN IF limitReached > 0
     THEN [c EXCEPT !.active = @ \cup {t.made + 1}, !.limitTimerRef = t.made + 1,
                    !.made = @ + 1]
     ELSE c

\* A render with the countdown effect, which runs when limitReached differs
\* from the last render's.
RenderCountdown ==
  /\ page.timer.mounted
  /\ RenderNoting(NoSubmit,
                  IF st.limitReached # view.limitReached
                  THEN [page EXCEPT !.timer = countdownEffect(@, st.limitReached)]
                  ELSE page)

\* An interval that was not cleared fires.
TimerFires ==
  /\ page.timer.mounted
  /\ TickWhen(page.timer.active # {}, MaxLimitTicks, NoSubmit)

\* The component unmounts: the cleanup of the countdown effect runs.
Unmount ==
  /\ page.timer.mounted
  /\ page' = [page EXCEPT !.timer = [clearLimitTimer(@) EXCEPT !.mounted = FALSE]]
  /\ UNCHANGED <<visVars, chatVars>>

\* A 429 with its limit statuses, the countdown's renders and an unmount.
NextTimer ==
  \/ page.timer.mounted /\ PopupOpen
  \/ page.timer.mounted /\ handleTopSearchSubmit(1)
  \/ RenderCountdown
  \/ \E r \in Requests : page.timer.mounted /\ FetchNotOk(r, 429)
  \/ \E r \in Requests, k \in {"onError429", "catch429"}, secs \in 0..MaxLimitSecs :
       page.timer.mounted /\ LimitStatusReturns(r, k, secs)
  \/ TimerFires
  \/ Unmount

SpecTimer == InitChat /\ [][NextTimer]_vars

\* ---------------------------------------------------------------------
\* Audio: scripts/tts (part_003 75-345) and useTTS.

\* useTTS's state with nothing playing or loading (useTTS.js:16-19).
UiIdle ==
  [ speaking |-> FALSE, speakingSource |-> "null",
    audioLoadingSelection |-> FALSE, audioLoadingResponse |-> FALSE ]

\* Mutant: the finally of play leaves speaking and its source as they are.
playFinallyKeepsSpeaking(t, c) ==
  IF t.calls[c].settled THEN t
  ELSE [t EXCEPT !.calls[c].settled = TRUE, !.speakingRef = FALSE,
                 !.ui.audioLoadingSelection = FALSE,
                 !.ui.audioLoadingResponse = FALSE]

\* The finally of play (useTTS.js:63-69), run once when the race of call c
\* settles: both loading flags, speakingRef, speaking and its source are
\* cleared.
playFinally(t, c) ==
  IF t.calls[c].settled THEN t
  ELSE [t EXCEPT !.calls[c].settled = TRUE, !.speakingRef = FALSE, !.ui = UiIdle]

\* The race of call c rejects: the catch of play reports to the error sink
\* (61-62), then the finally runs. A rejection after the race has settled
\* reaches nobody.
playCatch(t, c) ==
  IF t.calls[c].settled THEN t
  ELSE playFinally([t EXCEPT !.errors = @ \cup {c}], c)

\* cleanup(resolve): the current audio is paused and dropped, endResolver is
\* cleared and the promise of call c (0 for none) is resolved, after which
\* play's finally runs (useTTS.js:63-69).
cleanup(t, c) ==
  LET u == [t EXCEPT !.playing = @ \ {t.currentAudio}, !.currentAudio = 0,
                     !.endResolver = 0]
  IN IF c = 0 THEN u
     ELSE [playFinally(u, c) EXCEPT !.calls[c].phase = "ended"]

stopSpeech(t) == cleanup(t, t.endResolver)

\* The audio button of the selection or of the response, with a text:
\* stopAll while speakingRef is set, else play up to its first await.
AudioClick ==
  /\ IF page.tts.speakingRef
     THEN page' = [page EXCEPT !.tts = [stopSpeech(@) EXCEPT !.speakingRef = FALSE,
                                                            !.ui = UiIdle]]
     ELSE /\ Len(page.tts.calls) < MaxTtsCalls
          /\ \E source \in {"selection", "response"} :
               page' = [page EXCEPT
                 !.tts.speakingRef = TRUE,
                 !.tts.ui = [@ EXCEPT
                   !.speaking = TRUE,
                   !.speakingSource = source,
                   !.audioLoadingSelection = IF source = "selection" THEN TRUE ELSE @,
                   !.audioLoadingResponse = IF source = "response" THEN TRUE ELSE @],
                 !.tts.calls = Append(@, [phase |-> "raf", settled |-> FALSE,
                                          source |-> source])]
  /\ UNCHANGED <<visVars, chatVars>>

\* The frame awaited by play arrives: speakText stops the current playback
\* and starts the fetch.
speakTextStarts(c) ==
  /\ page.tts.calls[c].phase = "raf"
  /\ page' = [page EXCEPT !.tts = [stopSpeech(@) EXCEPT !.calls[c].phase = "fetch"]]
  /\ UNCHANGED <<visVars, chatVars>>

\* The fetch and the blob arrive: the audio is created and made current,
\* onReady clears the loading flag of the call's source, and the audio plays.
speakTextPlays(c) ==
  /\ page.tts.calls[c].phase = "fetch"
  /\ page' = [page EXCEPT
       !.tts.calls[c].phase = "playing",
       !.tts.currentAudio = c,
       !.tts.endResolver = c,
       !.tts.playing = @ \cup {c},
       !.tts.ui.audioLoadingSelection =
          IF page.tts.calls[c].source = "selection" THEN FALSE ELSE @,
       !.tts.ui.audioLoadingResponse =
          IF page.tts.calls[c].source = "response" THEN FALSE ELSE @]
  /\ UNCHANGED <<visVars, chatVars>>

\* The fetch fails (not ok, aborted after the timeout): speakText throws
\* and play's catch and finally run.
speakTextFails(c) ==
  /\ page.tts.calls[c].phase = "fetch"
  /\ page' = [page EXCEPT !.tts = [playCatch(@, c) EXCEPT !.calls[c].phase = "failed"]]
  /\ UNCHANGED <<visVars, chatVars>>

\* The watchdog of play wins the race: catch and finally run, speakText goes
\* on.
Watchdog(c) ==
  /\ page.tts.calls[c].phase \in {"fetch", "playing"}
  /\ ~page.tts.calls[c].settled
  /\ page' = [page EXCEPT !.tts = playCatch(@, c)]
  /\ UNCHANGED <<visVars, chatVars>>

\* The audio of call c plays to its end: onended runs cleanup(resolve).
AudioEnded(c) ==
  /\ c \in page.tts.playing
  /\ page' = [page EXCEPT !.tts = cleanup([@ EXCEPT !.playing = @ \ {c}], c)]
  /\ UNCHANGED <<visVars, chatVars>>

\* The audio of call c fails while playing: onerror runs cleanup() on the
\* current audio and rejects the promise of call c (part_003 331-335).
AudioError(c) ==
  /\ c \in page.tts.playing
  /\ page' = [page EXCEPT
       !.tts = [playCatch(cleanup([@ EXCEPT !.playing = @ \ {c}], 0), c)
                  EXCEPT !.calls[c].phase = "failed"]]
  /\ UNCHANGED <<visVars, chatVars>>

NextTts ==
  \/ AudioClick
  \/ \E c \in 1..Len(page.tts.calls) : speakTextStarts(c)
  \/ \E c \in 1..Len(page.tts.calls) : speakTextPlays(c)
  \/ \E c \in 1..Len(page.tts.calls) : speakTextFails(c)
  \/ \E c \in 1..Len(page.tts.calls) : Watchdog(c)
  \/ \E c \in 1..Len(page.tts.calls) : AudioEnded(c)
  \/ \E c \in 1..Len(page.tts.calls) : AudioError(c)

SpecTts == InitChat /\ [][NextTts]_vars

\* ---------------------------------------------------------------------
\* Selection lock: createSelectionLock (useTTS.js 112-146) and its use.

\* Events: type, composedPath() when the event has that method, key and
\* modifiers.
Events ==
  [ type : {"selectstart", "dragstart", "keydown", "mousedown"},
    path : { <<"target", "body">>, <<"button", "popup-host", "body">> },
    composed : BOOLEAN,
    key : { "ArrowLeft", "End", "PageDown", "a", "A", "b" }, shiftKey : BOOLEAN, metaKey : BOOLEAN, ctrlKey : BOOLEAN ]

isEventInsidePopup(e) ==
  LET path == IF e.composed THEN e.path ELSE <<>>
  IN \E i \in 1..Len(path) : path[i] = "popup-host"

\* Mutant: the key alone, without Shift, counts as a selection key.
isSelectKeysAnyShift(e) ==
  \/ e.key \in { "ArrowLeft", "ArrowRight", "ArrowUp", "ArrowDown", "Home", "End",
                 "PageUp", "PageDown" }
  \/ (e.key \in {"a", "A"} /\ (e.metaKey \/ e.ctrlKey))

isSelectKeys(e) ==
  \/ (e.shiftKey /\ e.key \in { "ArrowLeft", "ArrowRight", "ArrowUp", "ArrowDown",
                                 "Home", "End", "PageUp", "PageDown" })
  \/ (e.key \in {"a", "A"} /\ (e.metaKey \/ e.ctrlKey))

\* The handler of selectionBlockHandlers for evt, run on e: TRUE when it
\* calls preventDefault and stopPropagation.
selectionBlockHandlers(evt, e) ==
  CASE evt \in {"selectstart", "dragstart"} -> ~isEventInsidePopup(e)
    [] evt = "keydown" -> ~isEventInsidePopup(e) /\ isSelectKeys(e)

\* Mutant: a new lock, with new handlers, at every call.
getLockApiFresh(l) ==
  [l EXCEPT !.lockApiRef = l.created + 1, !.created = @ + 1]

\* getLockApi: the lock created once and kept in lockApiRef.
getLockApi(l) ==
  IF l.lockApiRef # 0 THEN l
  ELSE [l EXCEPT !.lockApiRef = l.created + 1, !.created = @ + 1]

\* window.addEventListener(evt, handler, true): a listener already in the
\* list is not added again. Listeners are <<evt, lock>>.
RECURSIVE addEventListeners(_, _)
addEventListeners(list, ls) ==
  IF ls = <<>> THEN list
  ELSE addEventListeners(
         IF \E i \in 1..Len(list) : list[i] = Head(ls) THEN list ELSE Append(list, Head(ls)),
         Tail(ls))

\* addSelectionLock: getLockApi().add(); the overlay element may be absent.
addSelectionLock(overlayEl, cap) ==
  /\ page.lock.created < MaxLocks
  /\ page.lock.adds < cap
  /\ LET l == getLockApi(page.lock)
         id == l.lockApiRef
         handlers == << <<"selectstart", id>>, <<"dragstart", id>>, <<"keydown", id>> >>
     IN page' = [page EXCEPT !.lock =
                   [l EXCEPT !.listeners = addEventListeners(@, handlers),
                             !.locked = IF overlayEl THEN TRUE ELSE @,
                             !.lastCall = "add",
                             !.adds = @ + 1]]
  /\ UNCHANGED <<visVars, chatVars>>

\* removeSelectionLock: getLockApi().remove().
removeSelectionLock(overlayEl) ==
  /\ page.lock.created < MaxLocks
  /\ LET l == getLockApi(page.lock)
     IN page' = [page EXCEPT !.lock =
                   [l EXCEPT !.listeners = SelectSeq(@, LAMBDA x : x[2] # l.lockApiRef),
                             !.locked = IF overlayEl THEN FALSE ELSE @,
                             !.lastCall = "remove",
                             !.adds = 0,
                             !.addsBefore = l.adds]]
  /\ UNCHANGED <<visVars, chatVars>>

\* The browser dispatches e on window: the capture listeners of its type run.
DispatchEvent(e) ==
  /\ LET ls == page.lock.listeners
         hit == \E i \in 1..Len(ls) : ls[i][1] = e.type /\ selectionBlockHandlers(ls[i][1], e)
     IN page' = [page EXCEPT !.lastEvent =
                   [ type |-> e.type, e |-> e, nListeners |-> Len(ls),
                     prevented |-> hit, stopped |-> hit ]]
  /\ UNCHANGED <<visVars, chatVars>>

NextLock ==
  \/ addSelectionLock(TRUE, 1)
  \/ removeSelectionLock(TRUE)
  \/ \E e \in Events : DispatchEvent(e)

SpecLock == InitChat /\ [][NextLock]_vars

\* Repeated add() and remove() calls, with a few events in between.
NextLockCalls ==
  \/ \E overlayEl \in BOOLEAN : addSelectionLock(overlayEl, MaxAdds)
  \/ \E overlayEl \in BOOLEAN : removeSelectionLock(overlayEl)
  \/ \E e \in { x \in Events : x.key = "a" /\ x.composed /\ ~x.shiftKey /\ ~x.metaKey } :
       DispatchEvent(e)

SpecLockCalls == InitChat /\ [][NextLockCalls]_vars

\* ---------------------------------------------------------------------
\* Saved selection and its overlay: createSelectionOverlay (part_002) and
\* captureSelectionRange. Lengths are in quarters of a pixel.

\* Math.round of q quarters of a pixel, in pixels.
MathRound(q) == (q + 2) \div 4

\* Mutant: a rect of exactly 0.5 px is ignored too.
ignoredRectInclusive(r) == r.width <= 2 \/ r.height <= 2

\* r.width < 0.5 || r.height < 0.5
ignoredRect(r) == r.width < 2 \/ r.height < 2

\* The .hl blocks renderFromRange appends for the client rects, in order.
RECURSIVE hlBlocks(_)
hlBlocks(rects) ==
  IF rects = <<>> THEN <<>>
  ELSE LET r == Head(rects)
       IN (IF ignoredRect(r) THEN <<>>
           ELSE << [ left |-> MathRound(r.left), top |-> MathRound(r.top),
                     width |-> MathRound(r.width), height |-> MathRound(r.height) ] >>)
          \o hlBlocks(Tail(rects))

\* renderFromRange(range): nothing for no range; else the previous overlay
\* is replaced by a container with the blocks, 'locked' when
\* responseOpenRef is set.
renderFromRange(ov, range) ==
  IF range = Null THEN ov
  ELSE [ locked |-> open(view), blocks |-> hlBlocks(range.rects), from |-> range.rects ]

\* document.body's overlay containers after renderFromRange(range): unchanged
\* for no range; else clear(), then the new container is appended.
bodyAfterRender(body, range, ov) ==
  IF range = Null THEN body ELSE Append(clear(body), renderFromRange(ov, range))

\* Client rects of the ranges the page can have selected.
ClientRects ==
  { [left |-> 0, top |-> 0, width |-> 0, height |-> 4],
    [left |-> 2, top |-> 0, width |-> 1, height |-> 4],
    [left |-> 4, top |-> 5, width |-> 2, height |-> 2],
    [left |-> 6, top |-> 0, width |-> 4, height |-> 1],
    [left |-> 9, top |-> 8, width |-> 5, height |-> 6] }
LiveSelections ==
  { [rangeCount |-> 0] } \cup
  [ rangeCount : {1},
    text : { <<>>, Str(<<" ">>), Str(<<" ", "x", " ">>), Str(<<"y">>) },
    rects : {<<>>} \cup { <<a>> : a \in ClientRects }
              \cup { <<a, b>> : a \in ClientRects, b \in ClientRects } ]

\* The user changes the selection of the page.
SelectionChanges(live) ==
  /\ live # page.sel.live
  /\ page' = [page EXCEPT !.sel.live = live, !.sel.act = "select"]
  /\ UNCHANGED <<visVars, chatVars>>

\* Mutant: an empty selection is captured too.
captureSelectionRangeAlways(l) ==
  IF l.live.rangeCount = 0 THEN l
  ELSE LET r == [text |-> l.live.text, rects |-> l.live.rects]
       IN [l EXCEPT !.selectionRangeRef = r,
                    !.overlayEl = renderFromRange(@, r),
                    !.body = bodyAfterRender(@, r, l.overlayEl),
                    !.originalSelection = trim(r.text)]

\* captureSelectionRange on the record l of the saved selection.
captureSelectionRangeOf(l) ==
  IF l.live.rangeCount = 0 THEN l
  ELSE LET r == [text |-> l.live.text, rects |-> l.live.rects]
           trimmed == trim(r.text)
       IN IF trimmed = <<>> THEN l
          ELSE [l EXCEPT !.selectionRangeRef = r,
                         !.overlayEl = renderFromRange(@, r),
                         !.body = bodyAfterRender(@, r, l.overlayEl),
                         !.originalSelection = trimmed]

captureSelectionRange ==
  /\ page' = [page EXCEPT !.sel = [captureSelectionRangeOf(@) EXCEPT !.act = "capture"]]
  /\ UNCHANGED <<visVars, chatVars>>

rerenderOverlayFromSavedRange ==
  /\ page' = [page EXCEPT !.sel.overlayEl = renderFromRange(@, page.sel.selectionRangeRef),
                          !.sel.body = bodyAfterRender(@, page.sel.selectionRangeRef,
                                                       page.sel.overlayEl),
                          !.sel.act = "rerender"]
  /\ UNCHANGED <<visVars, chatVars>>

\* The close paths: clearSelectionOverlay() and selectionRangeRef = null.
forgetSavedSelection ==
  /\ page.sel.act # "forget"
  /\ page' = [page EXCEPT !.sel.overlayEl = Null, !.sel.selectionRangeRef = Null,
                          !.sel.body = clear(@),
                          !.sel.act = "forget"]
  /\ UNCHANGED <<visVars, chatVars>>

NextCapture ==
  \/ \E live \in LiveSelections : SelectionChanges(live)
  \/ captureSelectionRange
  \/ rerenderOverlayFromSavedRange
  \/ forgetSavedSelection

SpecCapture == InitChat /\ [][NextCapture]_vars

\* The dependencies of the lock effect as rendered: response, error, loading.
lockDeps(v) == <<v.response, v.error, v.loading>>

\* The selection-lock effect (601-619), run after a render that changed its
\* dependencies: the cleanup of the previous run removes the lock; then, with
\* the response view open, the lock is added, a selection captured when none
\* is saved and the overlay drawn again; else the lock is removed.
LockEffect ==
  /\ page.lock.deps # lockDeps(view)
  /\ page.lock.created < MaxLocks
  /\ LET l == getLockApi(page.lock)
         id == l.lockApiRef
         handlers == << <<"selectstart", id>>, <<"dragstart", id>>, <<"keydown", id>> >>
         removed == [l EXCEPT !.listeners = SelectSeq(@, LAMBDA x : x[2] # id),
                              !.locked = FALSE, !.lastCall = "remove"]
         added == [removed EXCEPT !.listeners = addEventListeners(@, handlers),
                                  !.locked = page.sel.overlayEl # Null,
                                  !.lastCall = "add"]
         saved == IF page.sel.selectionRangeRef = Null
                  THEN captureSelectionRangeOf(page.sel) ELSE page.sel
         drawn == [saved EXCEPT !.overlayEl = renderFromRange(@, saved.selectionRangeRef),
                                !.body = bodyAfterRender(@, saved.selectionRangeRef,
                                                         saved.overlayEl)]
     IN page' = [page EXCEPT
                   !.lock = [(IF open(view) THEN added ELSE removed)
                               EXCEPT !.deps = lockDeps(view)],
                   !.sel = IF open(view) THEN drawn ELSE @]
  /\ UNCHANGED <<visVars, chatVars>>

\* A request and its stream, the popup's close paths, and the lock effect.
NextLockView ==
  \/ PopupOpen
  \/ PopupClose
  \/ CloseButton
  \/ handleTopSearchSubmit(1)
  \/ Render
  \/ LockEffect
  \/ \E r \in Requests : StreamOpens(r)
  \/ \E r \in Requests : Token(r)
  \/ \E r \in Requests : StreamEnd(r)
  \/ \E live \in { l \in LiveSelections : l.rangeCount = 0 \/ Len(l.rects) = 0 } :
       SelectionChanges(live)

SpecLockView == InitChat /\ [][NextLockView]_vars

\* mousedown on the search input or its icon (663-666, 697-699).
SearchMouseDown == popupOpen /\ captureSelectionRange

\* A popup session: opened, a selection captured from the search bar, a
\* request started, and the ways the popup closes.
NextClose ==
  \/ PopupOpen
  \/ PopupClose
  \/ CloseButton
  \/ EscapeKey
  \/ handleTopSearchSubmit(1)
  \/ \E live \in { l \in LiveSelections : l.rangeCount = 0 \/ Len(l.rects) <= 1 } :
       SelectionChanges(live)
  \/ SearchMouseDown

SpecClose == InitChat /\ [][NextClose]_vars

(***************************************************************************)
(* Claims about the visibility controller.                                 *)
(***************************************************************************)
\* The popup's visibility rule over the flags as they are now.
ShownRule ==
  ~forceClosed /\ (pinned \/ (~isMouseDown /\ obs.selVisible) \/ insidePopup)

\* C1: at the end of every reconciliation pass the popup element is displayed
\* iff !forceClosed && (pinned || (!isMouseDown && selVisible) || insidePopup),
\* over the values the flags have at the end of that pass.
C1_ShownIffRule ==
  obs.passes >= 1 => ((boxDisplay = "block") <=> ShownRule)

\* C1 witness: a pass has left the popup shown only because the pointer is
\* over it (not pinned, no visible selection).
C1_Witness ==
  /\ obs.passes >= 1
  /\ boxDisplay = "block"
  /\ insidePopup /\ ~pinned /\ ~obs.selVisible

\* C2: once set, forceClosed stays true across every step that is not a pass
\* observing a selection text different from the last observed one, and it
\* becomes false exactly on the pass that observes a different text.
C2_ForceClosedUntilTextDiffers ==
  [][ forceClosed =>
        (forceClosed' <=>
           ~(obs'.passes >= 1 /\ lastSelectionText' # lastSelectionText)) ]_vars

\* C2 witness: a pass saw a visible, non-empty, unchanged selection with the
\* mouse released, and the popup stays hidden because forceClosed held.
C2_Witness ==
  /\ obs.passes >= 1
  /\ forceClosed
  /\ obs.selVisible /\ lastSelectionText # 0 /\ ~isMouseDown
  /\ boxDisplay = "none"

\* C3: at most one frame callback is pending at any time, and a frame that
\* follows one or more triggers runs exactly one reconciliation pass.
C3_OnePassPerFrame ==
  /\ rafQueue <= 1
  /\ (rafId # 0) <=> (rafQueue = 1)
  /\ obs.coalesced >= 1 => obs.passes = 1

\* C3 witness: a frame served several triggers with a single pass.
C3_Witness ==
  obs.coalesced >= 2 /\ obs.passes = 1

\* C4: every change of the popup between hidden and shown comes with exactly
\* one lifecycle signal of the matching kind, a step that leaves visibility
\* unchanged dispatches none, and open and close alternate, open first.
C4_SignalPerChange ==
  [][ /\ (boxDisplay = "none" /\ boxDisplay' = "block") => obs'.emitted = <<"open">>
      /\ (boxDisplay = "block" /\ boxDisplay' = "none") => obs'.emitted = <<"close">>
      /\ (boxDisplay' = boxDisplay) => obs'.emitted = <<>>
      /\ \A i \in 1..Len(obs'.emitted) :
           LET prev == IF i = 1 THEN lastSignal ELSE obs'.emitted[i - 1]
           IN (obs'.emitted[i] = "open") <=> (prev \in {"none", "close"}) ]_vars

(***************************************************************************)
(* Claims about the client rate limiter (SpecRate).                        *)
(***************************************************************************)
\* The stored timestamps lying within the last RATE_WINDOW_MS.
StoredRecent ==
  { i \in 1..Len(refs.requestTimesRef) : refs.requestTimesRef[i] > clock - RATE_WINDOW_MS }

\* C5: a submission made while five accepted submissions lie within the last
\* 60000 ms is rejected with a displayed wait of at least 1 second, and a
\* submission made while fewer than five do (so once 60000 ms have elapsed
\* since the oldest of five) is accepted.
C5_RejectedWhileFiveInWindow ==
  /\ chatObs.act = "reject" => chatObs.inWindow >= RATE_LIMIT /\ chatObs.wait >= 1
  /\ chatObs.act = "accept" => chatObs.inWindow < RATE_LIMIT

\* Five submissions accepted within one window, and the sixth accepted
\* exactly 60000 ms after the oldest of them.
C5_Witness ==
  /\ Len(reqs) = 6
  /\ chatObs.act = "accept"
  /\ reqs[5].at < reqs[1].at + RATE_WINDOW_MS
  /\ reqs[6].at = reqs[1].at + RATE_WINDOW_MS

\* C6: the stored request-timestamp list never holds more than five entries
\* within the last 60000 ms.
C6_AtMostFiveRecentStored ==
  Cardinality(StoredRecent) <= RATE_LIMIT

\* Five recent entries stored after an older one was pruned.
C6_Witness ==
  /\ Cardinality(StoredRecent) = RATE_LIMIT
  /\ Len(refs.requestTimesRef) = RATE_LIMIT
  /\ Len(reqs) = 6

\* C7: a rejected submission leaves history, context snapshot, stored
\* timestamps and loading unchanged and starts no request; it only sets the
\* response to the rate-limit text and clears the error.
C7_RejectedChangesOnlyResponse ==
  [][ chatObs'.act = "reject" =>
        /\ st' = [st EXCEPT !.error = "", !.response = ClientLimitMsg(chatObs'.wait)]
        /\ refs'.requestTimesRef = refs.requestTimesRef
        /\ reqs' = reqs ]_vars

\* A submission rejected while a request is loading and the history is not
\* empty.
C7_Witness ==
  /\ chatObs.act = "reject"
  /\ st.loading
  /\ st.history # <<>>
  /\ st.response = ClientLimitMsg(chatObs.wait)
  /\ st.error = ""

(***************************************************************************)
(* Claims about the conversation history (SpecOverlap, SpecChat).          *)
(***************************************************************************)
\* C8: no request appends more than one assistant entry to the history,
\* however often its completion is signalled. (That an accepted submission
\* appends exactly one user entry is C8_OneUserEntryPerSubmission.)
C8_OneAssistantEntryPerRequest ==
  \A r \in Requests : reqs[r].appends <= 1

\* C8, first half: an accepted submission appends one user entry.
C8_OneUserEntryPerSubmission ==
  [][ (chatObs'.act = "accept" /\ Len(reqs') = Len(reqs) + 1) =>
        /\ Len(st'.history) = Len(st.history) + 1
        /\ st'.history[Len(st'.history)].role = "user"
        /\ SubSeq(st'.history, 1, Len(st.history)) = st.history ]_vars

\* The kinds of text that are a full constructed prompt.
PromptKinds == {"Prompt", "SearchPrompt"}

\* C9: a non-empty history starts with a user entry holding a constructed
\* prompt (Explain's or the top search's).
C9_FirstEntryIsPrompt ==
  st.history # <<>> =>
    /\ st.history[1].role = "user"
    /\ st.history[1].content[1][1] \in PromptKinds

\* The rate-limit texts, the client's and the server's.
LimitKinds == { ClientLimitMsg(0)[1][1], ServerLimitMsg(0)[1][1] }

\* C10: no history entry contains a rate-limit message.
C10_NoLimitTextInHistory ==
  \A i \in 1..Len(st.history) :
    \A j \in 1..Len(st.history[i].content) :
      st.history[i].content[j][1] \notin LimitKinds

\* ---------------------------------------------------------------------
\* Token normalisation

\* The pattern \.\s{2,} matches at position j of q.
Matched(q, j) ==
  /\ j + 2 <= Len(q)
  /\ q[j] = Dot
  /\ isSpace(q[j + 1])
  /\ isSpace(q[j + 2])

\* Position i of q lies in the white space of a match.
InRun(q, i) ==
  /\ isSpace(q[i])
  /\ \E j \in 1..(i - 1) : Matched(q, j) /\ \A k \in (j + 1)..i : isSpace(q[k])

\* q with every period followed by two or more white-space characters
\* replaced by the period and two line breaks, position by position.
RECURSIVE ReplacedFrom(_, _)
ReplacedFrom(q, i) ==
  IF i > Len(q) THEN <<>>
  ELSE (IF InRun(q, i) THEN (IF q[i - 1] = Dot THEN <<Nl, Nl>> ELSE <<>>)
        ELSE <<q[i]>>) \o ReplacedFrom(q, i + 1)

TheTokens ==
  << Str(<<"T", "h", "e", " ">>),
     Str(<<"t", "h", "e", "o", "r", "y", ".", " ">>),
     Str(<<" ", " ", "M", "o", "r", "e", ".">>) >>

TheTheoryMore ==
  Str(<<"T", "h", "e", " ", "t", "h", "e", "o", "r", "y", ".", "\n", "\n",
        "M", "o", "r", "e", ".">>)

\* C11: after each token the buffer is the buffer the token met, followed by
\* the token, with every period followed by two or more white-space
\* characters replaced by the period and two line breaks; after the tokens
\* "The ", "theory. ", "  More." of a request that ran with no other request
\* in flight the buffer is "The theory.\n\nMore.".
C11_TokenAppendedNormalized ==
  chatObs.act = "token" =>
    /\ st.response = ReplacedFrom(chatObs.prev \o chatObs.tok, 1)
    /\ (reqs[chatObs.r].alone /\ reqs[chatObs.r].toks = TheTokens)
         => st.response = TheTheoryMore

C11_Witness ==
  /\ chatObs.act = "token"
  /\ \E r \in Requests : reqs[r].toks = TheTokens
  /\ st.response = TheTheoryMore

\* The buffer after the tokens ts, each applied to the buffer before it,
\* starting from the empty buffer.
RECURSIVE Replay(_)
Replay(ts) ==
  IF ts = <<>> THEN <<>>
  ELSE onToken(Replay(SubSeq(ts, 1, Len(ts) - 1)), ts[Len(ts)])

\* C12: the buffer of a submission that runs with no other request in flight
\* is the replay of its own tokens from the empty buffer, whatever an earlier
\* submission left: two such submissions with the same tokens end with the
\* same buffer.
C12_BufferDependsOnOwnTokens ==
  \A r \in Requests :
    (r = Len(reqs) /\ reqs[r].alone) => st.response = Replay(reqs[r].toks)

C12_Witness ==
  /\ Len(reqs) = 2
  /\ reqs[1].alone /\ reqs[2].alone
  /\ reqs[2].phase = "closed"
  /\ reqs[2].toks = <<Str(<<".">>), Str(<<" ", " ">>)>>
  /\ reqs[1].toks = reqs[2].toks
  /\ st.response = Str(<<".", "\n", "\n">>)

\* C13: after a 429 whose limit status reported N > 0 seconds, the message
\* shown is the server message for N and, until another status arrives, the
\* counter is N less the ticks since, never below 0: it is 0 after N ticks.
C13_CountdownFromReported ==
  (chatObs.act = "429" /\ chatObs.secs > 0) =>
    /\ st.response = ServerLimitMsg(chatObs.secs)
    /\ st.limitReached = Max2(0, chatObs.secs - chatObs.ticks)

C13_Witness ==
  /\ chatObs.act = "429"
  /\ chatObs.secs = MaxLimitSecs
  /\ chatObs.ticks = MaxLimitSecs
  /\ st.limitReached = 0
  /\ view.limitReached = 0
  /\ \A r \in Requests : reqs[r].pend = {}

\* C14: after a streaming failure other than a 429, no error is shown while
\* the non-streaming call is pending or after it has returned a text: an
\* error is shown only once that call has failed too.
C14_ErrorOnlyAfterFallbackFailed ==
  \A r \in Requests :
    reqs[r].pend \cap {"fallback", "fbStatus"} # {} => st.error = ""

\* C15: the response buffer never holds tokens of two different requests.
C15_TokensOfOneRequest ==
  \A i, j \in 1..Len(st.response) :
    (st.response[i][1] = "token" /\ st.response[j][1] = "token")
      => st.response[i][2] = st.response[j][2]

\* C16: at most one audio plays at any time.
C16_AtMostOnePlayback == Cardinality(page.tts.playing) <= 1

\* ---------------------------------------------------------------------
\* Selection lock

\* The composed path of e includes the popup host.
PathHasHost(e) == e.composed /\ "popup-host" \in { e.path[i] : i \in 1..Len(e.path) }

\* e is Shift+Arrow/Home/End/PageUp/PageDown or Ctrl/Cmd+A.
SelectionKey(e) ==
  \/ (e.shiftKey /\ e.key \notin {"a", "A", "b"})
  \/ (e.key \in {"a", "A"} /\ (e.ctrlKey \/ e.metaKey))

\* C17: while the lock is active an event whose composed path includes the
\* popup host is neither prevented nor stopped; outside the popup,
\* selectstart and dragstart are prevented, and keydown is prevented exactly
\* when it is a selection key.
C17_LockBlocksOnlyOutsidePopup ==
  (page.lastEvent.type # "none" /\ page.lastEvent.nListeners > 0) =>
    LET ev == page.lastEvent IN
      /\ PathHasHost(ev.e) => (~ev.prevented /\ ~ev.stopped)
      /\ (~PathHasHost(ev.e) /\ ev.type \in {"selectstart", "dragstart"}) => ev.prevented
      /\ (~PathHasHost(ev.e) /\ ev.type = "keydown") => (ev.prevented <=> SelectionKey(ev.e))

C17_Witness ==
  /\ page.lastEvent.type = "keydown"
  /\ page.lastEvent.nListeners = 3
  /\ ~PathHasHost(page.lastEvent.e)
  /\ page.lastEvent.e.key = "PageDown"
  /\ page.lastEvent.e.shiftKey
  /\ page.lastEvent.prevented

\* The listeners of window registered for evt.
Registered(evt) ==
  Cardinality({ i \in 1..Len(page.lock.listeners) : page.lock.listeners[i][1] = evt })

\* C18: each of the three handlers is registered at most once; after add()
\* each is registered, however often add() was called; after remove() none
\* is, however many add() calls preceded it.
C18_AddRemoveIdempotent ==
  \A evt \in {"selectstart", "dragstart", "keydown"} :
    /\ Registered(evt) <= 1
    /\ page.lock.lastCall = "add" => Registered(evt) = 1
    /\ page.lock.lastCall = "remove" => Registered(evt) = 0

C18_Witness ==
  /\ page.lock.lastCall = "remove"
  /\ page.lock.addsBefore = MaxAdds
  /\ page.lock.listeners = <<>>
  /\ page.lastEvent.type = "selectstart"
  /\ page.lastEvent.nListeners = 0
  /\ ~page.lastEvent.prevented

\* ---------------------------------------------------------------------
\* Overlay and saved selection

\* The rects of at least 0.5 px in both directions, by position in rects.
Kept(rects) == { i \in 1..Len(rects) : rects[i].width >= 2 /\ rects[i].height >= 2 }

\* C19: the overlay drawn from a range has exactly one block per client rect
\* whose width and height are both at least 0.5 px, in the order of the
\* rects, and no other block.
C19_OneBlockPerVisibleRect ==
  page.sel.overlayEl # Null =>
    LET ov == page.sel.overlayEl
        K == Kept(ov.from)
    IN /\ Len(ov.blocks) = Cardinality(K)
       /\ \A i \in K :
            LET n == Cardinality({ j \in K : j <= i })
            IN /\ ov.blocks[n].left = MathRound(ov.from[i].left)
               /\ ov.blocks[n].top = MathRound(ov.from[i].top)

C19_Witness ==
  /\ page.sel.overlayEl # Null
  /\ Len(page.sel.overlayEl.from) = 2
  /\ page.sel.overlayEl.from[1].width = 1
  /\ page.sel.overlayEl.from[2].width = 2
  /\ page.sel.overlayEl.from[2].height = 2
  /\ Len(page.sel.overlayEl.blocks) = 1
  /\ page.sel.overlayEl.blocks[1].width = 1

\* The text has a character that is not white space.
HasText(q) == \E i \in 1..Len(q) : ~isSpace(q[i])

C21_HiddenPopupKeepsNothing ==
  ~popupOpen => (page.sel.overlayEl = Null /\ page.sel.selectionRangeRef = Null)

(***************************************************************************)
(* SpecPos: getSelectionRect and positionBox as functions of their inputs: *)
(* a selection, an overlay, a viewport and a measured popup.  The popup    *)
(* element carries max-width: calc(100vw - 16px) (content.js:128), so its  *)
(* width is at most the viewport width less 16; its height is whatever the *)
(* content needs.                                                          *)
(***************************************************************************)
PosInputs ==
  { [innerWidth |-> vw, innerHeight |-> vh, boxW |-> bw, boxH |-> bh,
     resolved |-> FALSE, found |-> <<>>] :
      vw \in {24, 40}, vh \in {20, 40}, bw \in {4, 6}, bh \in {4, 14, 30} }

InitPos ==
  /\ ChatIdle
  /\ insidePopup = FALSE /\ lastVisible = FALSE /\ rafId = 0 /\ isMouseDown = FALSE
  /\ pinned = FALSE /\ forceClosed = FALSE /\ lastSelectionText = 0
  /\ boxDisplay = "none" /\ boxPos = <<0, 0>>
  /\ selection \in Selections
  /\ overlay \in Overlays
  /\ rafQueue = 0 /\ timers = 0 /\ triggers = 0
  /\ lastSignal = "none" /\ obs \in PosInputs

\* content.js:177-219 on the drawn selection and overlay.
ResolveAnchorRect ==
  /\ ~obs.resolved
  /\ obs' = [obs EXCEPT !.resolved = TRUE, !.found = getSelectionRect(selection, overlay)]
  /\ UNCHANGED <<insidePopup, lastVisible, rafId, isMouseDown, pinned, forceClosed,
                 lastSelectionText, boxDisplay, boxPos, selection, overlay, rafQueue,
                 timers, triggers, lastSignal, chatVars, page>>

\* content.js:237-261 on the rect found, for the drawn viewport and popup.
PositionBox ==
  /\ obs.resolved /\ obs.found # <<>>
  /\ boxDisplay = "none"
  /\ boxDisplay' = "block"
  /\ boxPos' = positionBoxOf(obs.found[1], obs.innerWidth, obs.innerHeight,
                             obs.boxW, obs.boxH)
  /\ UNCHANGED <<insidePopup, lastVisible, rafId, isMouseDown, pinned, forceClosed,
                 lastSelectionText, selection, overlay, rafQueue, timers, triggers,
                 lastSignal, obs, chatVars, page>>

NextPos ==
  \/ ResolveAnchorRect
  \/ PositionBox

SpecPos == InitPos /\ [][NextPos]_vars

\* C22: once positioned, the popup lies entirely inside the viewport.
C22_PopupInsideViewport ==
  boxDisplay = "block" =>
    /\ 0 <= boxPos[1] /\ boxPos[1] + obs.boxW <= obs.innerWidth
    /\ 0 <= boxPos[2] /\ boxPos[2] + obs.boxH <= obs.innerHeight

\* The live selection yields a usable rect: a non-collapsed range whose
\* bottom-most client rect (or bounding rect) is not zero-sized.
LiveRect ==
  IF selection.collapsed THEN <<>>
  ELSE LET r == IF selection.rects # <<>> THEN bottomMost(selection.rects)
                ELSE EmptyBounds
       IN IF width(r) = 0 /\ height(r) = 0 THEN <<>> ELSE <<r>>

\* C24: the rect found is the live selection's bottom-most rect when that is
\* usable; otherwise, with highlight blocks in the overlay, the bottom-most
\* block's rect; it is null only when neither source yields a rect.
C24_LiveThenOverlayThenNull ==
  obs.resolved =>
    /\ LiveRect # <<>> => obs.found = LiveRect
    /\ (LiveRect = <<>> /\ overlay # <<>>) => obs.found = <<bottomMost(overlay)>>
    /\ obs.found = <<>> => (LiveRect = <<>> /\ overlay = <<>>)

(***************************************************************************)
(* SpecDismiss: the visibility controller with the two dismissals of the   *)
(* component.  page.lastEvent notes a dismissal until the user's next      *)
(* selectionchange, and whether the last pass before it had seen the       *)
(* selection's text.                                                       *)
(***************************************************************************)
Dismissed ==
  [page EXCEPT !.lastEvent = [type |-> "dismissed",
                              observed |-> selection.text = lastSelectionText]]
UserActed == [page EXCEPT !.lastEvent = [type |-> "none"]]

\* ContentPopup.jsx:766-783, the X button of the open response section (which
\* pins the popup): overlay cleared, removeAllRanges(), then popup:forceClose.
XButton ==
  /\ boxDisplay = "block"
  /\ pinned
  /\ ForceCloseNoting([text |-> 0, collapsed |-> TRUE, rects |-> <<>>], <<>>, Dismissed)

\* ContentPopup.jsx:621-635, Escape with no response open: popup:forceClose only.
EscapeDismiss ==
  /\ boxDisplay = "block"
  /\ ~pinned
  /\ ForceCloseNoting(selection, overlay, Dismissed)

NextDismiss ==
  \/ \E sel \in Selections : SelectionChangeNoting(sel, UserActed)
  \/ MouseDown
  \/ MouseUp
  \/ MouseUpTimer
  \/ \E p \in BOOLEAN : PopupPin(p)
  \/ XButton
  \/ EscapeDismiss
  \/ \E ov \in Overlays : OverlayChange(ov)
  \/ Frame

SpecDismiss == InitVis /\ [][NextDismiss]_vars

\* C23: from a dismissal until the user's next change of the selection the
\* popup is not shown (stated for the dismissals of a selection whose text a
\* pass of the controller had already observed).
C23_DismissedStaysHidden ==
  (page.lastEvent.type = "dismissed" /\ page.lastEvent.observed)
    => boxDisplay = "none"

\* The anchor rect of the page's selection and overlay lies in the viewport.
AnchorInViewport ==
  LET found == getSelectionRect(selection, overlay)
  IN found # <<>> /\ rectIntersectsViewport(found[1])

\* C25: a pass that finds no anchor rect in the viewport uses the corner rect
\* and takes the selection for visible when there is live text, a
\* non-collapsed range, overlay highlights or a pin, and takes it for not
\* visible otherwise; a pass that finds an anchor rect in the viewport
\* positions the popup by that rect.
C25_CornerOnlyForSelectionOrPin ==
  obs.passes >= 1 =>
    LET exists == selection.text # 0 \/ ~selection.collapsed \/ overlay # <<>>
    IN /\ (~AnchorInViewport /\ (exists \/ pinned)) =>
            (obs.selVisible /\ boxPos = positionBox(CornerRect))
       /\ (~AnchorInViewport /\ ~exists /\ ~pinned) => ~obs.selVisible
       /\ AnchorInViewport =>
            (obs.selVisible
             /\ boxPos = positionBox(getSelectionRect(selection, overlay)[1]))

\* C25 witness: a pass shows the popup at the corner rect for overlay
\* highlights that are off screen, with nothing selected live and no pin.
C25_Witness ==
  /\ obs.passes >= 1
  /\ selection.text = 0 /\ selection.collapsed /\ ~pinned
  /\ overlay # <<>> /\ ~AnchorInViewport
  /\ obs.selVisible /\ boxDisplay = "block" /\ boxPos = positionBox(CornerRect)

\* C26: a completion that appends the assistant entry appends the trimmed
\* replay of every token delivered for the request before it.
C26_EntryHoldsEveryToken ==
  [][ \A r \in 1..Len(reqs) :
        (Len(reqs') = Len(reqs) /\ reqs[r].alone /\ reqs'[r].appends > reqs[r].appends)
          => st'.history[Len(st'.history)] =
               Entry("assistant", trim(Replay(reqs[r].toks))) ]_vars

\* C27: a follow-up appends its raw text as the user entry, and its prompt
\* holds every entry appended before it and the context snapshot.
C27_DeeperPromptHoldsHistory ==
  chatObs.act = "deeper" =>
    /\ st.history = Append(chatObs.before, Entry("user", <<Piece("follow-up", 0, 0)>>))
    /\ chatObs.prompt.history = chatObs.before
    /\ chatObs.prompt.context = st.contexts

\* C28: the step that ends a 429 failure (of the stream or of the fallback)
\* leaves no error banner, loading false, the server's message displayed and
\* the counter at the reported seconds, 60 for 0 or none.
C28_RateLimitedWithoutBanner ==
  [][ \A r \in 1..Len(reqs) :
        (/\ Len(reqs') = Len(reqs)
         /\ \E k \in {"onError429", "catch429", "fb429"} :
              k \in reqs[r].pend /\ k \notin reqs'[r].pend)
          => /\ st'.error = ""
             /\ ~st'.loading
             /\ st'.limitReached >= 1
             /\ st'.response = ServerLimitMsg(st'.limitReached) ]_vars

\* A request has work left: its stream, a fallback, or a limit status.
Running(q) == q.phase # "closed" \/ q.pend # {} \/ q.statusPending > 0

\* C29: the last step of every request is the arrival of a limit status, asked
\* after its completion, its fallback or its failure.
C29_EndsWithLimitStatus ==
  [][ \A r \in 1..Len(reqs) :
        (Len(reqs') = Len(reqs) /\ Running(reqs[r]) /\ ~Running(reqs'[r]))
          => \/ reqs'[r].statusPending < reqs[r].statusPending
             \/ \E k \in {"fbStatus", "onError429", "catch429", "fb429"} :
                  k \in reqs[r].pend /\ k \notin reqs'[r].pend ]_vars

\* C30: at most one countdown timer is active, the one limitTimerRef holds,
\* and none is active once the component has rendered the counter 0 or is
\* unmounted.
C30_AtMostOneCountdown ==
  /\ Cardinality(page.timer.active) <= 1
  /\ page.timer.active \subseteq {page.timer.limitTimerRef}
  /\ (view.limitReached = 0 \/ ~page.timer.mounted) => page.timer.active = {}

\* C30 witness: the counter changed while a timer ran; the timer was cleared
\* and the one scheduled after it is the only one active.
C30_Witness ==
  /\ page.timer.made >= 2
  /\ page.timer.active = {page.timer.made}
  /\ view.limitReached > 0

\* C31: once every write is rendered and the lock effect has run, the lock's
\* handlers are installed exactly while the response view is open, and none
\* is installed while the popup is hidden.
C31_LockedExactlyWhileOpen ==
  (net.dirty = 0 /\ page.lock.deps = lockDeps(view)) =>
    /\ (page.lock.listeners # <<>>) <=> open(view)
    /\ ~popupOpen => page.lock.listeners = <<>>

\* C32: in every reachable state document.body holds at most one overlay
\* container, whatever sequence of renderFromRange and clear calls ran (the
\* re-renders of the saved range included), and none after clear.
C32_AtMostOneOverlayNode ==
  /\ Len(page.sel.body) <= 1
  /\ page.sel.act = "forget" => page.sel.body = <<>>

\* A re-render has replaced the container of an earlier render.
C32_Witness ==
  /\ page.sel.act = "rerender"
  /\ Len(page.sel.body) = 1
  /\ page.sel.live.rangeCount = 1
  /\ page.sel.selectionRangeRef # Null
  /\ page.sel.live.text # page.sel.selectionRangeRef.text

\* The calls of play whose race has not settled.
Unsettled == { c \in 1..Len(page.tts.calls) : ~page.tts.calls[c].settled }

\* C33: a step in which a play attempt ends (its audio ends, its request or
\* its playback fails, the watchdog fires, or the user stops it) leaves
\* speaking false, the speaking source null and both loading flags false; a
\* step in which it ends by a failure adds it to the error sink; and with no
\* attempt left the state is neither speaking nor loading.
C33_PlayEndsIdle ==
  /\ [](Unsettled = {} => page.tts.ui = UiIdle /\ ~page.tts.speakingRef)
  /\ [][ \A c \in Unsettled :
           page'.tts.calls[c].settled =>
             /\ page'.tts.ui = UiIdle
             /\ page'.tts.calls[c].phase = "failed" => c \in page'.tts.errors
             /\ (page.tts.calls[c].phase = page'.tts.calls[c].phase
                   /\ page.tts.calls[c].phase # "raf")
                  => c \in page'.tts.errors ]_vars

\* One attempt was ended by the watchdog and one by a failed request, both
\* reported, and nothing is left speaking or loading.
C33_Witness ==
  /\ Len(page.tts.calls) >= 2
  /\ Unsettled = {}
  /\ \E c \in page.tts.errors : page.tts.calls[c].phase = "playing"
  /\ \E c \in page.tts.errors : page.tts.calls[c].phase = "failed"
  /\ page.tts.ui = UiIdle

\* The generation requests in flight: the streaming call awaiting its fetch
\* or reading its stream, and the non-streaming fallback.
InFlight ==
  { r \in Requests : reqs[r].phase \in {"fetch", "stream"} \/ "fallback" \in reqs[r].pend }

\* C34: loading is true whenever a generation request, the streaming call or
\* its fallback, is in flight.
C34_LoadingWhileInFlight == InFlight # {} => st.loading

\* C37: once the [DONE] sentinel of a streaming call has been processed, no
\* step calls onDone or onError of that call again and no token of it is
\* delivered.
C37_OneTerminalCallback ==
  [][ \A r \in Requests :
        reqs[r].sawDone =>
          /\ reqs'[r].statusPending <= reqs[r].statusPending
          /\ reqs'[r].ntok = reqs[r].ntok
          /\ reqs'[r].pend \subseteq reqs[r].pend ]_vars

\* C36: every trigger is eventually followed by a frame callback that runs
\* after it, and the scheduler is never left with the pending-frame marker
\* set and no callback pending, nor with a trigger and no callback pending,
\* also after a pass that threw.
C36_TriggerLeadsToPass ==
  /\ [](rafId # 0 => rafQueue = 1)
  /\ [](triggers > 0 => rafQueue = 1)
  /\ \A n \in 1..MaxTriggers :
       (triggers = n) ~> (triggers < n /\ obs.passes = 1 /\ obs.coalesced >= n)

\* A pass served the triggers before it and showed the popup; no callback and
\* no marker is left.
C36_Witness ==
  /\ obs.passes = 1
  /\ obs.coalesced >= 1
  /\ obs.selVisible
  /\ lastSignal = "open"
  /\ boxDisplay = "block"
  /\ rafId = 0
  /\ rafQueue = 0
  /\ triggers = 0

\* C35: every accepted submission is eventually settled (its stream, its
\* fallback and its limit-status fetches have returned) with loading false.
C35_SubmissionSettles ==
  \A r \in 1..MaxLiveReq :
    (Len(reqs) >= r) ~> (Len(reqs) >= r /\ ~Running(reqs[r]) /\ ~st.loading)

\* A submission whose stream delivered a token and then failed, and whose
\* fallback failed after the popup was closed, is settled with nothing loading.
C35_Witness ==
  /\ Len(reqs) >= 1
  /\ \A r \in Requests : ~Running(reqs[r])
  /\ reqs[1].ntok = 1
  /\ st.error # ""
  /\ ~st.loading
  /\ ~popupOpen

\* C38: a key or click of the deeper bar handled with the counter at 1 or
\* more calls no submission handler and leaves the input; the limit message
\* is asked for only with the lock free, and the lock is freed only by a
\* render of the counter 0, so not twice while the counter stays above 0.
C38_BlockedWhileLimited ==
  /\ [](chatObs.act = "deeperKey" /\ chatObs.counter >= 1
          => ~chatObs.submitted /\ ~chatObs.cleared)
  /\ [][ /\ net'.limitAction > net.limitAction
            => ~refs.limitActionLockRef /\ refs'.limitActionLockRef
               /\ view.limitReached >= 1
         /\ (refs.limitActionLockRef /\ ~refs'.limitActionLockRef)
            => view'.limitReached = 0
         /\ (chatObs'.act = "deeperKey" /\ chatObs'.counter >= 1)
            => reqs' = reqs /\ st' = st ]_vars

\* The deeper bar was used with the limit message shown: the attempt was
\* blocked and asked for no second message.
C38_Witness ==
  /\ chatObs.act = "deeperKey"
  /\ chatObs.counter >= 1
  /\ ~chatObs.limitAction
  /\ refs.limitActionLockRef
  /\ view.limitShown
  /\ net.limitAction = 0

\* C39: a step of popup:open, popup:close or the X button leaves response,
\* error, history and context snapshot empty, loading false and the
\* server-limit counter 0, and the timestamp window of the client rate
\* limiter as it was.
C39_ResetKeepsRateWindow ==
  [][ (PopupOpen \/ PopupClose \/ CloseButton) =>
        /\ st'.response = <<>>
        /\ st'.error = ""
        /\ ~st'.loading
        /\ st'.history = <<>>
        /\ st'.contexts = <<>>
        /\ st'.limitReached = 0
        /\ refs'.requestTimesRef = refs.requestTimesRef ]_vars

\* After the popup was closed and opened again, with an empty history, a
\* submission is rejected by the window filled before the close.
C39_Witness ==
  /\ net.opens = 2
  /\ popupOpen
  /\ chatObs.act = "reject"
  /\ Len(refs.requestTimesRef) = RATE_LIMIT
  /\ st.history = <<>>

\* The text a token sequence is a split of.
RECURSIVE Concat(_)
Concat(ts) == IF ts = <<>> THEN <<>> ELSE Head(ts) \o Concat(Tail(ts))

\* C40: the buffer built by normalizing after each appended token equals the
\* normalization, applied once, of the concatenated tokens, and normalizing
\* the buffer again leaves it unchanged.
C40_IncrementalEqualsOneShot ==
  \A r \in Requests :
    (r = Len(reqs) /\ reqs[r].alone) =>
      /\ st.response = normalize(Concat(reqs[r].toks))
      /\ normalize(st.response) = st.response

\* A period and two blanks arrived as three tokens and became a period and
\* two line breaks.
C40_Witness ==
  \E r \in Requests :
    /\ r = Len(reqs)
    /\ reqs[r].alone
    /\ reqs[r].toks = << Str(<<".">>), Str(<<" ">>), Str(<<" ">>) >>
    /\ st.response = <<Dot, Nl, Nl>>

====
